---- MODULE Spec2Model ----
(***************************************************************************)
(* Model of tamu_batch_ai/parsers.py: TOONParser (parse, _parse_value) and *)
(* ResponseParser (parse_response, _detect_format, _parse_json,            *)
(* _parse_toon).                                                           *)
(*                                                                         *)
(* A Python str is a sequence of one-character strings.  The backtick      *)
(* cannot be written inside a TLA+ string, so the fence character is       *)
(* written "~" throughout (no modelled text holds a real tilde).           *)
(*                                                                         *)
(* A Python value is a record [t, v]:                                      *)
(*   str   v = sequence of characters      bool  v = TRUE / FALSE          *)
(*   int   v = integer                     null  v = "None"                *)
(*   float v = <<mantissa, decimals>>      list  v = sequence of values    *)
(*   map   v = function from keys (character sequences) to values          *)
(*   ref   v = index of a dict in the heap (a Python object reference)     *)
(***************************************************************************)
EXTENDS Integers, Sequences, FiniteSets, TLC

VARIABLES
    shape,      \* how the argument text was put together (input bookkeeping)
    input,      \* parse_response argument response_text
    hint,       \* parse_response argument format_hint
    pc,         \* position in parse_response and its callees
    text,       \* local response_text after .strip()
    fmt,        \* local format_hint after auto-detection
    inTry,      \* control is inside the try block of the else branch
    calls,      \* parsers entered so far, in order ("json" / "toon")
    loads,      \* number of json.loads invocations so far
    payload,    \* json_str / toon_str handed to the parser ("none" before)
    lines,      \* TOONParser.parse: lines
    idx,        \* TOONParser.parse: number of lines consumed
    heap,       \* TOONParser.parse: the dict objects, heap[1] is result
    stack,      \* TOONParser.parse: stack of [d, indent] frames
    pops,       \* TOONParser.parse: stack.pop() calls so far
    outcome,    \* "none" | "return" | "raise"
    exc,        \* raised exception: [type, msg] ("none" before)
    result,     \* returned value ("none" before)
    frames      \* concurrent TOONParser.parse calls: per caller its argument,
                \* position and returned value, per frame the locals

vars == <<shape, input, hint, pc, text, fmt, inTry, calls, loads, payload,
          lines, idx, heap, stack, pops, outcome, exc, result, frames>>

----------------------------------------------------------------------------
(* Characters and str methods                                              *)

Chars(s) == [i \in 1..Len(s) |-> SubSeq(s, i, i)]

BT == "~"
LowerLetters == Chars("abcdefghijklmnopqrstuvwxyz")
UpperLetters == Chars("ABCDEFGHIJKLMNOPQRSTUVWXYZ")
DigitChars == Chars("0123456789")
Range(f) == {f[i] : i \in DOMAIN f}
Digits == Range(DigitChars)
\* str.strip() / re \s : the whitespace of the modelled alphabet
Space == {" ", "\n", "\t", "\r"}
\* re \w
WordChars == Range(LowerLetters) \cup Range(UpperLetters) \cup Digits \cup {"_"}

Min(S) == CHOOSE x \in S : \A y \in S : x <= y
Max(S) == CHOOSE x \in S : \A y \in S : x >= y

IndexIn(f, c) == CHOOSE i \in DOMAIN f : f[i] = c
\* str.lower(), one character
LowerChar(c) == IF c \in Range(UpperLetters) THEN LowerLetters[IndexIn(UpperLetters, c)] ELSE c
Lower(s) == [i \in 1..Len(s) |-> LowerChar(s[i])]

\* str.lstrip(), str.rstrip(), str.strip()
LStrip(s) ==
    LET keep == {i \in 1..Len(s) : s[i] \notin Space}
    IN  IF keep = {} THEN <<>> ELSE SubSeq(s, Min(keep), Len(s))
RStrip(s) ==
    LET keep == {i \in 1..Len(s) : s[i] \notin Space}
    IN  IF keep = {} THEN <<>> ELSE SubSeq(s, 1, Max(keep))
Strip(s) ==
    LET keep == {i \in 1..Len(s) : s[i] \notin Space}
    IN  IF keep = {} THEN <<>> ELSE SubSeq(s, Min(keep), Max(keep))

\* c in s
Contains(s, c) == \E i \in 1..Len(s) : s[i] = c
\* s[p:].startswith(pat), p counted from 1
MatchAt(s, p, pat) ==
    /\ p >= 1
    /\ p + Len(pat) - 1 <= Len(s)
    /\ \A i \in 1..Len(pat) : s[p + i - 1] = pat[i]
StartsWith(s, pat) == MatchAt(s, 1, pat)
EndsWith(s, pat) == MatchAt(s, Len(s) - Len(pat) + 1, pat)

\* s.split(c)
RECURSIVE Split(_, _)
Split(s, c) ==
    LET at == {i \in 1..Len(s) : s[i] = c}
    IN  IF at = {} THEN <<s>>
        ELSE <<SubSeq(s, 1, Min(at) - 1)>> \o Split(SubSeq(s, Min(at) + 1, Len(s)), c)
\* s.rsplit(c, 1), for s that contains c
SplitLast(s, c) ==
    LET i == Max({j \in 1..Len(s) : s[j] = c})
    IN  <<SubSeq(s, 1, i - 1), SubSeq(s, i + 1, Len(s))>>
\* s.split(c, 1), for s that contains c
SplitFirst(s, c) ==
    LET i == Min({j \in 1..Len(s) : s[j] = c})
    IN  <<SubSeq(s, 1, i - 1), SubSeq(s, i + 1, Len(s))>>

\* "\n".join(ls)
RECURSIVE Join(_)
Join(ls) ==
    IF ls = <<>> THEN <<>>
    ELSE IF Len(ls) = 1 THEN ls[1]
    ELSE ls[1] \o <<"\n">> \o Join(Tail(ls))

----------------------------------------------------------------------------
(* Python values                                                           *)

VStr(s) == [t |-> "str", v |-> s]
VBool(b) == [t |-> "bool", v |-> b]
VNull == [t |-> "null", v |-> "None"]
VInt(n) == [t |-> "int", v |-> n]
VFloat(m, d) == [t |-> "float", v |-> <<m, d>>]
VList(xs) == [t |-> "list", v |-> xs]
VMap(d) == [t |-> "map", v |-> d]
VRef(i) == [t |-> "ref", v |-> i]

\* {} and d[k] = v
EmptyDict == [k \in {} |-> VNull]
\* d.setdefault(k, v): an earlier entry under k stays
PutIfAbsent(d, k, v) == [x \in (DOMAIN d) \cup {k} |-> IF x \in DOMAIN d THEN d[x] ELSE v]
Put(d, k, v) == [x \in (DOMAIN d) \cup {k} |-> IF x = k THEN v ELSE d[x]]

----------------------------------------------------------------------------
(* TOONParser._parse_value                                                 *)

DigitVal(c) == IndexIn(DigitChars, c) - 1
RECURSIVE DigitsVal(_)
DigitsVal(ds) ==
    IF ds = <<>> THEN 0
    ELSE 10 * DigitsVal(SubSeq(ds, 1, Len(ds) - 1)) + DigitVal(ds[Len(ds)])

Unsigned(s) == IF s # <<>> /\ s[1] \in {"+", "-"} THEN Tail(s) ELSE s
Sign(s) == IF s # <<>> /\ s[1] = "-" THEN -1 ELSE 1
\* digits, single underscores allowed between digits
IsDigitRun(s) ==
    /\ s # <<>>
    /\ \A i \in 1..Len(s) : s[i] \in Digits \cup {"_"}
    /\ s[1] # "_" /\ s[Len(s)] # "_"
    /\ \A i \in 1..(Len(s) - 1) : ~(s[i] = "_" /\ s[i + 1] = "_")
NoUnderscore(s) == SelectSeq(s, LAMBDA c : c # "_")

\* int(value) succeeds
IsInt(s) == IsDigitRun(Unsigned(s))
IntOf(s) == Sign(s) * DigitsVal(NoUnderscore(Unsigned(s)))

\* the mantissa and the exponent of a float literal: the text before and
\* after its first "e" or "E" (no exponent: <<>>)
HasExponent(s) == \E i \in 1..Len(s) : s[i] \in {"e", "E"}
Mantissa(s) ==
    SubSeq(s, 1, Min({i \in 1..Len(s) : s[i] \in {"e", "E"}} \cup {Len(s) + 1}) - 1)
Exponent(s) ==
    SubSeq(s, Min({i \in 1..Len(s) : s[i] \in {"e", "E"}} \cup {Len(s) + 1}) + 1, Len(s))
\* float(value) succeeds, for a value that contains ".":
\* [sign] (digits "." [digits] | [digits] "." digits) [("e" | "E") [sign] digits]
IsFloat(s) ==
    LET u == Unsigned(s)
        parts == Split(Mantissa(u), ".")
    IN  /\ Len(parts) = 2
        /\ parts[1] # <<>> \/ parts[2] # <<>>
        /\ parts[1] = <<>> \/ IsDigitRun(parts[1])
        /\ parts[2] = <<>> \/ IsDigitRun(parts[2])
        /\ HasExponent(u) => IsInt(Exponent(u))
RECURSIVE DropZeros(_)
DropZeros(ds) ==
    IF ds # <<>> /\ ds[Len(ds)] = "0" THEN DropZeros(SubSeq(ds, 1, Len(ds) - 1)) ELSE ds
\* m / 10^d without trailing zeros in the fraction
RECURSIVE Normalized(_, _)
Normalized(m, d) ==
    IF d < 0 THEN Normalized(m * 10, d + 1)
    ELSE IF d > 0 /\ m % 10 = 0 THEN Normalized(m \div 10, d - 1)
    ELSE VFloat(m, d)
FloatOf(s) ==
    LET u == Unsigned(s)
        parts == Split(Mantissa(u), ".")
        frac == NoUnderscore(parts[2])
        x == IF HasExponent(u) THEN IntOf(Exponent(u)) ELSE 0
    IN  Normalized(Sign(s) * DigitsVal(NoUnderscore(parts[1]) \o frac), Len(frac) - x)

\* the array notation with integer elements coerced instead of kept as text
ParseListCoerced(value) ==
    LET items_str == Strip(SubSeq(value, 2, Len(value) - 1))
        items == Split(items_str, ",")
    IN  IF items_str = <<>> THEN VList(<<>>)
        ELSE VList([i \in 1..Len(items) |->
                        IF IsInt(Strip(items[i])) THEN VInt(IntOf(Strip(items[i])))
                        ELSE VStr(Strip(items[i]))])

\* the array notation with the items left untrimmed
ParseListUntrimmed(value) ==
    LET items_str == Strip(SubSeq(value, 2, Len(value) - 1))
        items == Split(items_str, ",")
    IN  IF items_str = <<>> THEN VList(<<>>)
        ELSE VList([i \in 1..Len(items) |-> VStr(items[i])])

\* if value.startswith('[') and value.endswith(']'): the list of items
ParseList(value) ==
    LET items_str == Strip(SubSeq(value, 2, Len(value) - 1))
        items == Split(items_str, ",")
    IN  IF items_str = <<>> THEN VList(<<>>)
        ELSE VList([i \in 1..Len(items) |-> VStr(Strip(items[i]))])

\* _parse_value returning the lowered token as the default string
ParseValueLowered(raw) ==
    LET value == Strip(raw)
    IN  IF value = <<>> THEN VStr(<<>>)
        ELSE IF StartsWith(value, <<"[">>) /\ EndsWith(value, <<"]">>) THEN ParseList(value)
        ELSE IF Lower(value) = Chars("true") THEN VBool(TRUE)
        ELSE IF Lower(value) = Chars("false") THEN VBool(FALSE)
        ELSE IF Lower(value) \in {Chars("null"), Chars("none")} THEN VNull
        ELSE IF Contains(value, ".") /\ IsFloat(value) THEN FloatOf(value)
        ELSE IF ~Contains(value, ".") /\ IsInt(value) THEN VInt(IntOf(value))
        ELSE VStr(Lower(value))

\* _parse_value comparing the token as written, without value.lower()
ParseValueCaseSensitive(raw) ==
    LET value == Strip(raw)
    IN  IF value = <<>> THEN VStr(<<>>)
        ELSE IF StartsWith(value, <<"[">>) /\ EndsWith(value, <<"]">>) THEN ParseList(value)
        ELSE IF value = Chars("true") THEN VBool(TRUE)
        ELSE IF value = Chars("false") THEN VBool(FALSE)
        ELSE IF value \in {Chars("null"), Chars("none")} THEN VNull
        ELSE IF Contains(value, ".") /\ IsFloat(value) THEN FloatOf(value)
        ELSE IF ~Contains(value, ".") /\ IsInt(value) THEN VInt(IntOf(value))
        ELSE VStr(value)

\* TOONParser._parse_value
ParseValue(raw) ==
    LET value == Strip(raw)
    IN  IF value = <<>> THEN VStr(<<>>)
        ELSE IF StartsWith(value, <<"[">>) /\ EndsWith(value, <<"]">>) THEN ParseList(value)
        ELSE IF Lower(value) = Chars("true") THEN VBool(TRUE)
        ELSE IF Lower(value) = Chars("false") THEN VBool(FALSE)
        ELSE IF Lower(value) \in {Chars("null"), Chars("none")} THEN VNull
        ELSE IF Contains(value, ".") /\ IsFloat(value) THEN FloatOf(value)
        ELSE IF ~Contains(value, ".") /\ IsInt(value) THEN VInt(IntOf(value))
        ELSE VStr(value)

----------------------------------------------------------------------------
(* Regular expressions of ResponseParser                                   *)

Fence == <<BT, BT, BT>>
NoMatch == [found |-> FALSE, str |-> <<>>]
Match(str) == [found |-> TRUE, str |-> str]

\* where re.MULTILINE lets ^ match
LineStarts(s) == {1} \cup {i + 1 : i \in {j \in 1..Len(s) : s[j] = "\n"}}
\* end of the greedy \s* that starts at i
SkipSpace(s, i) == Min({j \in i..Len(s) : s[j] \notin Space} \cup {Len(s) + 1})

\* re.search(r'^\s*\{', text, re.MULTILINE)
HasJsonMarker(s) ==
    \E p \in LineStarts(s) :
        LET q == SkipSpace(s, p) IN q <= Len(s) /\ s[q] = "{"
\* the TOON search with leading whitespace allowed: r'^\s*\w+(\|)?:\s*'
HasToonMarkerIndented(s) ==
    \E p \in LineStarts(s) :
        LET a == SkipSpace(s, p)
            q == Min({j \in a..Len(s) : s[j] \notin WordChars} \cup {Len(s) + 1})
        IN  /\ q > a
            /\ \/ MatchAt(s, q, <<":">>)
               \/ MatchAt(s, q, <<"|", ":">>)

\* re.search(r'^\w+(\|)?:\s*', text, re.MULTILINE)
HasToonMarker(s) ==
    \E p \in LineStarts(s) :
        LET q == Min({j \in p..Len(s) : s[j] \notin WordChars} \cup {Len(s) + 1})
        IN  /\ q > p
            /\ \/ MatchAt(s, q, <<":">>)
               \/ MatchAt(s, q, <<"|", ":">>)

\* FencedJsonAt with the json tag required: r'```json\s*(\{.*?\})\s*```'
FencedJsonAtTagRequired(s, p) ==
    LET q == SkipSpace(s, p + 7)
        ends == {r \in (q + 1)..Len(s) :
                    s[r] = "}" /\ MatchAt(s, SkipSpace(s, r + 1), Fence)}
    IN  IF MatchAt(s, p, Fence \o Chars("json")) /\ MatchAt(s, q, <<"{">>) /\ ends # {}
        THEN Match(SubSeq(s, q, Min(ends)))
        ELSE NoMatch

\* r'```(?:json)?\s*(\{.*?\})\s*```' with re.DOTALL, tried at position p
FencedJsonAt(s, p) ==
    LET a == IF MatchAt(s, p + 3, Chars("json")) THEN p + 7 ELSE p + 3
        q == SkipSpace(s, a)
        ends == {r \in (q + 1)..Len(s) :
                    s[r] = "}" /\ MatchAt(s, SkipSpace(s, r + 1), Fence)}
    IN  IF MatchAt(s, p, Fence) /\ MatchAt(s, q, <<"{">>) /\ ends # {}
        THEN Match(SubSeq(s, q, Min(ends)))
        ELSE NoMatch
\* re.search: the match at the leftmost position that has one; group(1)
FencedJson(s) ==
    LET ps == {p \in 1..Len(s) : FencedJsonAt(s, p).found}
    IN  IF ps = {} THEN NoMatch ELSE FencedJsonAt(s, Min(ps))

\* RawJson accepting arrays too: r'[\[{].*[\]}]'
RawJsonAnyBracket(s) ==
    LET opens == {i \in 1..Len(s) : s[i] \in {"{", "["}}
        closes == {i \in 1..Len(s) : s[i] \in {"}", "]"}}
    IN  IF opens # {} /\ closes # {} /\ Max(closes) > Min(opens)
        THEN Match(SubSeq(s, Min(opens), Max(closes)))
        ELSE NoMatch
\* RawJson without the closing brace: r'\{.*'
RawJsonOpenOnly(s) ==
    LET opens == {i \in 1..Len(s) : s[i] = "{"}
    IN  IF opens # {} THEN Match(SubSeq(s, Min(opens), Len(s))) ELSE NoMatch

\* re.search(r'\{.*\}', text, re.DOTALL); group(0)
RawJson(s) ==
    LET opens == {i \in 1..Len(s) : s[i] = "{"}
        closes == {i \in 1..Len(s) : s[i] = "}"}
    IN  IF opens # {} /\ closes # {} /\ Max(closes) > Min(opens)
        THEN Match(SubSeq(s, Min(opens), Max(closes)))
        ELSE NoMatch

\* r'```(?:toon)?\s*(.*?)\s*```' with re.DOTALL, tried at position p
FencedToonAt(s, p) ==
    LET a == IF MatchAt(s, p + 3, Chars("toon")) THEN p + 7 ELSE p + 3
        b == SkipSpace(s, a)
        cs == {c \in b..Len(s) : MatchAt(s, SkipSpace(s, c), Fence)}
    IN  IF MatchAt(s, p, Fence) /\ cs # {}
        THEN Match(SubSeq(s, b, Min(cs) - 1))
        ELSE NoMatch
FencedToon(s) ==
    LET ps == {p \in 1..Len(s) : FencedToonAt(s, p).found}
    IN  IF ps = {} THEN NoMatch ELSE FencedToonAt(s, Min(ps))

\* _detect_format with the two searches in the other order
DetectFormatToonFirst(s) ==
    IF HasToonMarker(s) THEN "toon"
    ELSE IF HasJsonMarker(s) THEN "json"
    ELSE "json"

\* the detector without its default: "unknown" when neither marker is found
DetectFormatNoDefault(s) ==
    IF HasJsonMarker(s) THEN "json"
    ELSE IF HasToonMarker(s) THEN "toon"
    ELSE "unknown"

\* ResponseParser._detect_format
DetectFormat(s) ==
    IF HasJsonMarker(s) THEN "json"
    ELSE IF HasToonMarker(s) THEN "toon"
    ELSE "json"

----------------------------------------------------------------------------
(* json.loads (strict): objects, arrays, strings with the escapes of       *)
(* JEscapes, integers and decimals without exponent, true, false, null.    *)
(* A decoder result is [ok, val, next]; next is the index after the value. *)

\* containers json.loads can be inside of before the interpreter's recursion
\* limit ends the call (about 1000 in CPython; scaled down to the depth of the
\* deepest payload of JsonBodies)
RecursionLimit == 3
JFail == [ok |-> FALSE, val |-> VNull, next |-> 0, err |-> "decode"]
JTooDeep == [ok |-> FALSE, val |-> VNull, next |-> 0, err |-> "recursion"]
JOk(val, next) == [ok |-> TRUE, val |-> val, next |-> next, err |-> "none"]
At(s, i) == IF i >= 1 /\ i <= Len(s) THEN s[i] ELSE "EOF"

JEscapes == Chars("\"\\/ntr")
JEscaped == <<"\"", "\\", "/", "\n", "\t", "\r">>

\* scanstring: s[i] is the character after the opening quote
RECURSIVE JString(_, _, _)
JString(s, i, acc) ==
    LET c == At(s, i)
    IN  IF c = "EOF" THEN JFail
        ELSE IF c = "\"" THEN JOk(VStr(acc), i + 1)
        ELSE IF c = "\\" THEN
            IF At(s, i + 1) \in Range(JEscapes)
            THEN JString(s, i + 2, Append(acc, JEscaped[IndexIn(JEscapes, At(s, i + 1))]))
            ELSE JFail
        ELSE IF c \in {"\n", "\t", "\r"} THEN JFail
        ELSE JString(s, i + 1, Append(acc, c))

\* NUMBER_RE (-?(?:0|[1-9]\d*))(\.\d+)? matched at i
JNumber(s, i) ==
    LET neg == At(s, i) = "-"
        d0 == IF neg THEN i + 1 ELSE i
        dEnd == IF At(s, d0) = "0" THEN d0 + 1
                ELSE Min({j \in d0..Len(s) : s[j] \notin Digits} \cup {Len(s) + 1})
        fEnd == Min({j \in (dEnd + 1)..Len(s) : s[j] \notin Digits} \cup {Len(s) + 1})
        hasFrac == At(s, dEnd) = "." /\ fEnd > dEnd + 1
        sgn == IF neg THEN -1 ELSE 1
        ip == SubSeq(s, d0, dEnd - 1)
        frac == DropZeros(SubSeq(s, dEnd + 1, fEnd - 1))
    IN  IF dEnd = d0 THEN JFail
        ELSE IF hasFrac THEN JOk(VFloat(sgn * DigitsVal(ip \o frac), Len(frac)), fEnd)
        ELSE JOk(VInt(sgn * DigitsVal(ip)), dEnd)

RECURSIVE JValue(_, _, _)
RECURSIVE JMembers(_, _, _, _)
RECURSIVE JElements(_, _, _, _)

\* JSONObject after "{" and whitespace: "key" : value pairs up to "}"; n is
\* the number of containers the decoder is inside of
JMembers(s, i, acc, n) ==
    LET k == JString(s, i + 1, <<>>)
        colon == SkipSpace(s, k.next)
        val == JValue(s, SkipSpace(s, colon + 1), n)
        e == SkipSpace(s, val.next)
        d == Put(acc, k.val.v, val.val)
    IN  IF At(s, i) # "\"" \/ ~k.ok THEN JFail
        ELSE IF At(s, colon) # ":" THEN JFail
        ELSE IF ~val.ok THEN val
        ELSE IF At(s, e) = "}" THEN JOk(VMap(d), e + 1)
        ELSE IF At(s, e) = "," THEN JMembers(s, SkipSpace(s, e + 1), d, n)
        ELSE JFail

\* JSONArray after "[" and whitespace: values up to "]"
JElements(s, i, acc, n) ==
    LET val == JValue(s, i, n)
        e == SkipSpace(s, val.next)
    IN  IF ~val.ok THEN val
        ELSE IF At(s, e) = "]" THEN JOk(VList(Append(acc, val.val)), e + 1)
        ELSE IF At(s, e) = "," THEN JElements(s, SkipSpace(s, e + 1), Append(acc, val.val), n)
        ELSE JFail

\* scan_once; entering a container beyond the recursion limit ends the call
JValue(s, i, n) ==
    LET c == At(s, i)
    IN  IF c = "\"" THEN JString(s, i + 1, <<>>)
        ELSE IF c \in {"{", "["} /\ n >= RecursionLimit THEN JTooDeep
        ELSE IF c = "{" THEN
            IF At(s, SkipSpace(s, i + 1)) = "}"
            THEN JOk(VMap(EmptyDict), SkipSpace(s, i + 1) + 1)
            ELSE JMembers(s, SkipSpace(s, i + 1), EmptyDict, n + 1)
        ELSE IF c = "[" THEN
            IF At(s, SkipSpace(s, i + 1)) = "]"
            THEN JOk(VList(<<>>), SkipSpace(s, i + 1) + 1)
            ELSE JElements(s, SkipSpace(s, i + 1), <<>>, n + 1)
        ELSE IF MatchAt(s, i, Chars("null")) THEN JOk(VNull, i + 4)
        ELSE IF MatchAt(s, i, Chars("true")) THEN JOk(VBool(TRUE), i + 4)
        ELSE IF MatchAt(s, i, Chars("false")) THEN JOk(VBool(FALSE), i + 5)
        ELSE IF c \in Digits \cup {"-"} THEN JNumber(s, i)
        ELSE JFail

\* json.loads(s): one value, whitespace around it, nothing after it
JsonLoads(s) ==
    LET r == JValue(s, SkipSpace(s, 1), 0)
    IN  IF r.ok /\ SkipSpace(s, r.next) # Len(s) + 1 THEN JFail ELSE r

----------------------------------------------------------------------------
(* Inputs                                                                  *)

\* longest sequence of free lines, longest prose before / after a fence
MaxLines == 3
MaxProse == 1

SeqsUpTo(V, n) == UNION {[1..k -> V] : k \in 0..n}

\* lines of indentation notation, JSON and plain prose
LineVocab ==
    { Chars("title|"), Chars("title|:"), Chars("  val: hi"), Chars("tags: [War, Politics]"),
      Chars("# c"), Chars("{\"x\": true}"), Chars("{"), Chars("") }

\* the examples of the TOONParser docstring and of the documentation
DocExample ==
    << Chars("title|"), Chars("  val: Letter from John"), Chars("  conf: high"),
       Chars("subjects: [War, Politics]") >>
DocExampleColon ==
    << Chars("title|:"), Chars("  val: Letter from John"), Chars("  conf: high"),
       Chars("subjects: [War, Politics]") >>
NoColonExample == << Chars("no colon here at all") >>
RawNewlineExample == << Chars("{\"note\": \"line1"), Chars("line2\"}") >>
EscapedNewlineExample == << Chars("{\"note\": \"line1\\nline2\"}") >>
TwoObjectsExample == << Chars("{\"x\": 1} {\"y\": 2}") >>
\* a JSON object nested one container deeper than RecursionLimit
DeepExample == << Chars("{\"a\": [[[1]]]}") >>
Examples ==
    { DocExample, DocExampleColon, NoColonExample, RawNewlineExample,
      EscapedNewlineExample, TwoObjectsExample, DeepExample }

ProseVocab ==
    { Chars("Here is the result:"), Chars("note: hi"), Chars("see {x}") }
Tags == {"", "json", "toon"}
JsonBodies ==
    { << Chars("{\"x\": true}") >>,
      << Chars("{"), Chars("  \"a\": {\"b\": [1, \"c\"]}"), Chars("}") >> }
ToonBodies ==
    { << Chars("x: 1") >>,
      << Chars("title|:"), Chars("  val: hi") >> }
Bodies == JsonBodies \cup ToonBodies \cup { << Chars("[1]") >> }
Pads == { <<>>, <<" ">> }

LineShapes ==
    { [kind |-> "lines", pre |-> ls, tag |-> "", pad |-> <<>>, body |-> <<>>, post |-> <<>>] :
        ls \in SeqsUpTo(LineVocab, MaxLines) \cup Examples }
FencedShapes ==
    { [kind |-> "fenced", pre |-> a, tag |-> g, pad |-> w, body |-> b, post |-> z] :
        a \in SeqsUpTo(ProseVocab, MaxProse), g \in Tags, w \in Pads, b \in Bodies,
        z \in SeqsUpTo(ProseVocab, MaxProse) }
Shapes == LineShapes \cup FencedShapes

\* the text of a shape: its lines, the fence markers on lines of their own
TextOf(sh) ==
    IF sh.kind = "lines" THEN Join(sh.pre)
    ELSE Join(sh.pre \o << sh.pad \o Fence \o Chars(sh.tag) \o sh.pad >> \o sh.body
                     \o << sh.pad \o Fence \o sh.pad >> \o sh.post)

\* "json", "toon", "auto" and a hint that is none of them
Hints == {"json", "toon", "auto", "yaml"}

----------------------------------------------------------------------------
(* TOONParser.parse, one line at a time                                    *)

\* the indent with every leading tab counted as eight columns
IndentTabsExpanded(line) ==
    LET lead == Len(line) - Len(LStrip(line))
    IN  lead + 7 * Cardinality({i \in 1..lead : line[i] = "\t"})
Indent(line) == Len(line) - Len(LStrip(line))

\* the pop loop with the comparison off by one: stack[-1][1] >= indent - 1
RECURSIVE PopToInclusive(_, _)
PopToInclusive(stk, indent) ==
    IF stk # <<>> /\ stk[Len(stk)].indent >= indent - 1
    THEN PopToInclusive(SubSeq(stk, 1, Len(stk) - 1), indent)
    ELSE stk
\* the pop loop with a strict comparison: stack[-1][1] > indent
RECURSIVE PopToStrict(_, _)
PopToStrict(stk, indent) ==
    IF stk # <<>> /\ stk[Len(stk)].indent > indent
    THEN PopToStrict(SubSeq(stk, 1, Len(stk) - 1), indent)
    ELSE stk
\* while stack and stack[-1][1] >= indent: stack.pop()
RECURSIVE PopTo(_, _)
PopTo(stk, indent) ==
    IF stk # <<>> /\ stk[Len(stk)].indent >= indent
    THEN PopTo(SubSeq(stk, 1, Len(stk) - 1), indent)
    ELSE stk
\* stack[-1][0] if stack else result
CurrentDict(stk) == IF stk # <<>> THEN stk[Len(stk)].d ELSE 1

\* the returned result: heap[1] with every reference followed
RECURSIVE Deref(_, _)
Deref(h, id) ==
    VMap([k \in DOMAIN h[id] |->
            IF h[id][k].t = "ref" THEN Deref(h, h[id][k].v) ELSE h[id][k]])

NoExc == [type |-> "none", msg |-> "none"]
ValueError(msg) == [type |-> "ValueError", msg |-> msg]
NoValue == [t |-> "none", v |-> "none"]
\* no concurrent calls
NoFrames == [call |-> <<>>, locals |-> <<>>]
\* the error json.loads raises
JSONDecodeError == [type |-> "JSONDecodeError", msg |-> "Expecting value"]
\* the error of a json.loads call that exceeds the recursion limit
RecursionError == [type |-> "RecursionError", msg |-> "maximum recursion depth exceeded"]
\* the exception types the except clauses of parse_response name
Caught == {"JSONDecodeError", "ValueError"}
\* except json.JSONDecodeError as e: raise ValueError(f"Failed to parse JSON: {e}")
Wrapped(e) == ValueError("Failed to parse JSON")

Init ==
    /\ shape \in Shapes
    /\ input = TextOf(shape)
    /\ hint \in Hints
    /\ pc = "call"
    /\ text = <<>>
    /\ fmt = hint
    /\ inTry = FALSE
    /\ calls = <<>>
    /\ loads = 0
    /\ payload = "none"
    /\ lines = <<>>
    /\ idx = 0
    /\ heap = <<>>
    /\ stack = <<>>
    /\ pops = 0
    /\ outcome = "none"
    /\ exc = NoExc
    /\ result = NoValue
    /\ frames = NoFrames

toonVars == <<lines, idx, heap, stack, pops>>
argVars == <<shape, input, hint>>

\* raise e: caught by the except clause when inside the try block, else it
\* leaves parse_response
Raise(e) ==
    /\ exc' = e
    /\ IF inTry /\ e.type \in Caught
       THEN pc' = "except" /\ outcome' = outcome
       ELSE pc' = "done" /\ outcome' = "raise"
    /\ result' = result

Return(val) ==
    /\ result' = val
    /\ outcome' = "return"
    /\ pc' = "done"
    /\ exc' = exc

\* response_text = response_text.strip()
Begin ==
    /\ pc = "call"
    /\ text' = Strip(input)
    /\ pc' = IF hint = "auto" THEN "detect" ELSE "dispatch"
    /\ UNCHANGED <<argVars, frames, fmt, inTry, calls, loads, payload, toonVars, outcome, exc, result>>

\* format_hint = ResponseParser._detect_format(response_text)
Detect ==
    /\ pc = "detect"
    /\ fmt' = DetectFormat(text)
    /\ pc' = "dispatch"
    /\ UNCHANGED <<argVars, frames, text, inTry, calls, loads, payload, toonVars, outcome, exc, result>>

\* the json branch with the fallback of the else branch around it
DispatchJsonInTry ==
    /\ pc = "dispatch" /\ fmt = "json"
    /\ pc' = "parse_json"
    /\ inTry' = TRUE
    /\ UNCHANGED <<argVars, frames, text, fmt, calls, loads, payload, toonVars, outcome, exc, result>>

\* if format_hint == "json": return ResponseParser._parse_json(response_text)
DispatchJson ==
    /\ pc = "dispatch" /\ fmt = "json"
    /\ pc' = "parse_json"
    /\ UNCHANGED <<argVars, frames, text, fmt, inTry, calls, loads, payload, toonVars, outcome, exc, result>>

\* elif format_hint == "toon": return ResponseParser._parse_toon(response_text)
DispatchToon ==
    /\ pc = "dispatch" /\ fmt = "toon"
    /\ pc' = "parse_toon"
    /\ UNCHANGED <<argVars, frames, text, fmt, inTry, calls, loads, payload, toonVars, outcome, exc, result>>

\* else: try: return ResponseParser._parse_json(response_text)
DispatchElse ==
    /\ pc = "dispatch" /\ fmt \notin {"json", "toon"}
    /\ pc' = "parse_json"
    /\ inTry' = TRUE
    /\ UNCHANGED <<argVars, frames, text, fmt, calls, loads, payload, toonVars, outcome, exc, result>>

\* except (json.JSONDecodeError, ValueError): return ResponseParser._parse_toon(response_text)
Except ==
    /\ pc = "except"
    /\ inTry' = FALSE
    /\ pc' = "parse_toon"
    /\ UNCHANGED <<argVars, frames, text, fmt, calls, loads, payload, toonVars, outcome, exc, result>>

\* json_str of _parse_json: the fenced block, else the raw span
JsonPayload(s) == IF FencedJson(s).found THEN FencedJson(s) ELSE RawJson(s)
\* _parse_json up to json_str, a payload found
ParseJsonFound ==
    /\ pc = "parse_json"
    /\ JsonPayload(text).found
    /\ calls' = Append(calls, "json")
    /\ payload' = JsonPayload(text).str
    /\ pc' = "json_loads"
    /\ UNCHANGED <<argVars, frames, text, fmt, inTry, loads, toonVars, outcome, exc, result>>
\* raise ValueError("No JSON found in response")
ParseJsonNotFound ==
    /\ pc = "parse_json"
    /\ ~JsonPayload(text).found
    /\ calls' = Append(calls, "json")
    /\ Raise(ValueError("No JSON found in response"))
    /\ UNCHANGED <<argVars, frames, text, fmt, inTry, loads, payload, toonVars>>

\* try: return json.loads(json_str)
\* except json.JSONDecodeError as e: raise ValueError(f"Failed to parse JSON: {e}")
JsonLoadsOk ==
    /\ pc = "json_loads"
    /\ JsonLoads(payload).ok
    /\ loads' = loads + 1
    /\ Return(JsonLoads(payload).val)
    /\ UNCHANGED <<argVars, frames, text, fmt, inTry, calls, payload, toonVars>>
JsonLoadsError ==
    /\ pc = "json_loads"
    /\ ~JsonLoads(payload).ok /\ JsonLoads(payload).err = "decode"
    /\ loads' = loads + 1
    /\ Raise(Wrapped(JSONDecodeError))
    /\ UNCHANGED <<argVars, frames, text, fmt, inTry, calls, payload, toonVars>>
\* json.loads ends with RecursionError, which no except clause names
JsonLoadsRecursion ==
    /\ pc = "json_loads"
    /\ ~JsonLoads(payload).ok /\ JsonLoads(payload).err = "recursion"
    /\ loads' = loads + 1
    /\ Raise(RecursionError)
    /\ UNCHANGED <<argVars, frames, text, fmt, inTry, calls, payload, toonVars>>

\* toon_str without the search for a code block
ToonPayloadWholeText(s) == s
\* toon_str of _parse_toon: the fenced block, else the whole text
ToonPayload(s) == IF FencedToon(s).found THEN FencedToon(s).str ELSE s
\* the first statements of TOONParser.parse with the sentinel level at 0
ParseToonSentinelZero ==
    /\ pc = "parse_toon"
    /\ calls' = Append(calls, "toon")
    /\ payload' = ToonPayload(text)
    /\ lines' = Split(Strip(ToonPayload(text)), "\n")
    /\ idx' = 0
    /\ heap' = <<EmptyDict>>
    /\ stack' = <<[d |-> 1, indent |-> 0]>>
    /\ pops' = 0
    /\ pc' = "toon_loop"
    /\ UNCHANGED <<argVars, frames, text, fmt, inTry, loads, outcome, exc, result>>
\* TOONParser.parse reading the lines of the text as it was given, untrimmed
ParseToonKeepsIndent ==
    /\ pc = "parse_toon"
    /\ calls' = Append(calls, "toon")
    /\ payload' = ToonPayload(input)
    /\ lines' = Split(ToonPayload(input), "\n")
    /\ idx' = 0
    /\ heap' = <<EmptyDict>>
    /\ stack' = <<[d |-> 1, indent |-> -1]>>
    /\ pops' = 0
    /\ pc' = "toon_loop"
    /\ UNCHANGED <<argVars, frames, text, fmt, inTry, loads, outcome, exc, result>>
\* _parse_toon, and the first three statements of TOONParser.parse
ParseToon ==
    /\ pc = "parse_toon"
    /\ calls' = Append(calls, "toon")
    /\ payload' = ToonPayload(text)
    /\ lines' = Split(Strip(ToonPayload(text)), "\n")
    /\ idx' = 0
    /\ heap' = <<EmptyDict>>
    /\ stack' = <<[d |-> 1, indent |-> -1]>>
    /\ pops' = 0
    /\ pc' = "toon_loop"
    /\ UNCHANGED <<argVars, frames, text, fmt, inTry, loads, outcome, exc, result>>

Line == lines[idx + 1]
Stripped == Strip(Line)
InLoop == pc = "toon_loop" /\ idx < Len(lines)
IsSkipped == Stripped = <<>> \/ StartsWith(Stripped, <<"#">>)
Key == Strip(SplitFirst(Stripped, ":")[1])
Value == Strip(SplitFirst(Stripped, ":")[2])
Frames == PopTo(stack, Indent(Line))

\* the skip placed after the pop loop: a blank line or a comment closes frames
ToonSkipAfterPop ==
    /\ InLoop /\ IsSkipped
    /\ stack' = Frames
    /\ idx' = idx + 1
    /\ UNCHANGED <<argVars, frames, pc, text, fmt, inTry, calls, loads, payload, lines, heap,
                   pops, outcome, exc, result>>

\* a blank line or a comment: continue
ToonSkip ==
    /\ InLoop /\ IsSkipped
    /\ idx' = idx + 1
    /\ UNCHANGED <<argVars, frames, pc, text, fmt, inTry, calls, loads, payload, lines, heap,
                   stack, pops, outcome, exc, result>>

\* a line without ":": the stack is popped, nothing is inserted
ToonNoColon ==
    /\ InLoop /\ ~IsSkipped /\ ~Contains(Stripped, ":")
    /\ stack' = Frames
    /\ pops' = pops + (Len(stack) - Len(Frames))
    /\ idx' = idx + 1
    /\ UNCHANGED <<argVars, frames, pc, text, fmt, inTry, calls, loads, payload, lines, heap,
                   outcome, exc, result>>

\* the nesting branch inserting the new dict under the key in result as well
ToonNestedAlsoInRoot ==
    /\ InLoop /\ ~IsSkipped /\ Contains(Stripped, ":") /\ EndsWith(Key, <<"|">>)
    /\ LET new == Len(heap) + 1
           key == Strip(SubSeq(Key, 1, Len(Key) - 1))
           both == [heap EXCEPT ![CurrentDict(Frames)] = Put(@, key, VRef(new))]
       IN  /\ heap' = Append([both EXCEPT ![1] = Put(@, key, VRef(new))], EmptyDict)
           /\ stack' = Append(Frames, [d |-> new, indent |-> Indent(Line)])
    /\ pops' = pops + (Len(stack) - Len(Frames))
    /\ idx' = idx + 1
    /\ UNCHANGED <<argVars, frames, pc, text, fmt, inTry, calls, loads, payload, lines,
                   outcome, exc, result>>

\* the nesting branch without key = key[:-1].strip(): the marker stays in the key
ToonNestedKeepsMarker ==
    /\ InLoop /\ ~IsSkipped /\ Contains(Stripped, ":") /\ EndsWith(Key, <<"|">>)
    /\ LET new == Len(heap) + 1
       IN  /\ heap' = Append([heap EXCEPT ![CurrentDict(Frames)] = Put(@, Key, VRef(new))],
                             EmptyDict)
           /\ stack' = Append(Frames, [d |-> new, indent |-> Indent(Line)])
    /\ pops' = pops + (Len(stack) - Len(Frames))
    /\ idx' = idx + 1
    /\ UNCHANGED <<argVars, frames, pc, text, fmt, inTry, calls, loads, payload, lines,
                   outcome, exc, result>>

\* key ends with "|": a new dict under the key, pushed with this indent
ToonNested ==
    /\ InLoop /\ ~IsSkipped /\ Contains(Stripped, ":") /\ EndsWith(Key, <<"|">>)
    /\ LET new == Len(heap) + 1
           key == Strip(SubSeq(Key, 1, Len(Key) - 1))
       IN  /\ heap' = Append([heap EXCEPT ![CurrentDict(Frames)] = Put(@, key, VRef(new))],
                             EmptyDict)
           /\ stack' = Append(Frames, [d |-> new, indent |-> Indent(Line)])
    /\ pops' = pops + (Len(stack) - Len(Frames))
    /\ idx' = idx + 1
    /\ UNCHANGED <<argVars, frames, pc, text, fmt, inTry, calls, loads, payload, lines,
                   outcome, exc, result>>

\* key: value where a key with nothing after the ":" opens a Map for the
\* deeper indented lines that follow
ToonKeyValueEmptyOpens ==
    /\ InLoop /\ ~IsSkipped /\ Contains(Stripped, ":") /\ ~EndsWith(Key, <<"|">>)
    /\ IF Value = <<>>
       THEN /\ heap' = Append([heap EXCEPT ![CurrentDict(Frames)] =
                                  Put(@, Key, VRef(Len(heap) + 1))], EmptyDict)
            /\ stack' = Append(Frames, [d |-> Len(heap) + 1, indent |-> Indent(Line)])
       ELSE /\ heap' = [heap EXCEPT ![CurrentDict(Frames)] = Put(@, Key, ParseValue(Value))]
            /\ stack' = Frames
    /\ pops' = pops + (Len(stack) - Len(Frames))
    /\ idx' = idx + 1
    /\ UNCHANGED <<argVars, frames, pc, text, fmt, inTry, calls, loads, payload, lines,
                   outcome, exc, result>>

\* key: value
ToonKeyValue ==
    /\ InLoop /\ ~IsSkipped /\ Contains(Stripped, ":") /\ ~EndsWith(Key, <<"|">>)
    /\ heap' = [heap EXCEPT ![CurrentDict(Frames)] = Put(@, Key, ParseValue(Value))]
    /\ stack' = Frames
    /\ pops' = pops + (Len(stack) - Len(Frames))
    /\ idx' = idx + 1
    /\ UNCHANGED <<argVars, frames, pc, text, fmt, inTry, calls, loads, payload, lines,
                   outcome, exc, result>>

\* return result
ToonReturn ==
    /\ pc = "toon_loop" /\ idx = Len(lines)
    /\ Return(Deref(heap, 1))
    /\ UNCHANGED <<argVars, frames, text, fmt, inTry, calls, loads, payload, toonVars>>

Next ==
    \/ Begin
    \/ Detect
    \/ DispatchJson
    \/ DispatchToon
    \/ DispatchElse
    \/ Except
    \/ ParseJsonFound
    \/ ParseJsonNotFound
    \/ JsonLoadsOk
    \/ JsonLoadsError
    \/ JsonLoadsRecursion
    \/ ParseToon
    \/ ToonSkip
    \/ ToonNoColon
    \/ ToonNested
    \/ ToonKeyValue
    \/ ToonReturn

Spec == Init /\ [][Next]_vars

----------------------------------------------------------------------------
(* parse_response with the hint pinned to toon, on texts of up to          *)
(* MaxToonLines lines of ToonVocab: nesting markers at two depths, keys     *)
(* declared again with another value, a line without ":", a comment        *)

MaxToonLines == 3
ToonVocab ==
    { Chars("a|:"), Chars("  a|:"), Chars("  b: 1"), Chars("  b: 2"), Chars("a: 3"),
      Chars("    b: 4"), Chars("junk"), Chars("# c") }
ToonExamples ==
    { << Chars("a|:"), Chars("  a|:"), Chars("    b: 4"), Chars("  b: 1"), Chars("a: 3") >>,
      << Chars("a|:"), Chars("  b: 1"), Chars("  a|:"), Chars("    b: 4"), Chars("junk"),
         Chars("  b: 2") >>,
      << Chars("a|:"), Chars("  b: 1"), Chars("# c"), Chars("a|:"), Chars("  b: 2") >> }
\* one value of every kind
ValuesExample ==
    << Chars("a|:"), Chars("  b: [War, 1]"), Chars("  c: 1.50"), Chars("  d: True"),
       Chars("  a|:"), Chars("    e: none"), Chars("f: hi there"), Chars("g:"),
       Chars("h: -7") >>
ToonShapes ==
    { [kind |-> "lines", pre |-> ls, tag |-> "", pad |-> <<>>, body |-> <<>>, post |-> <<>>] :
        ls \in SeqsUpTo(ToonVocab, MaxToonLines) \cup ToonExamples \cup {ValuesExample} }

InitToon ==
    /\ shape \in ToonShapes
    /\ input = TextOf(shape)
    /\ hint = "toon"
    /\ pc = "call"
    /\ text = <<>>
    /\ fmt = hint
    /\ inTry = FALSE
    /\ calls = <<>>
    /\ loads = 0
    /\ payload = "none"
    /\ lines = <<>>
    /\ idx = 0
    /\ heap = <<>>
    /\ stack = <<>>
    /\ pops = 0
    /\ outcome = "none"
    /\ exc = NoExc
    /\ result = NoValue
    /\ frames = NoFrames

NextToon ==
    \/ Begin
    \/ DispatchToon
    \/ ParseToon
    \/ ToonSkip
    \/ ToonNoColon
    \/ ToonNested
    \/ ToonKeyValue
    \/ ToonReturn

SpecToon == InitToon /\ [][NextToon]_vars

----------------------------------------------------------------------------
(* TOONParser._parse_value called on its own: the token is a run of up to  *)
(* MaxParts pieces or one of TokenExamples                                 *)

MaxParts == 3
Pieces ==
    { "[", "]", ",", " ", "1", "0", ".", "-", "+", "e", "_", "a",
      "True", "FALSE", "null", "None" }
TokenExamples ==
    { Chars("[1, true, null]"), Chars("[War, Politics]"), Chars("Letter from John"),
      Chars("1.2.3"), Chars("1.5e3"), Chars("-0.50"), Chars("1_000"), Chars("10:30") }
RECURSIVE Concat(_)
Concat(ps) == IF ps = <<>> THEN <<>> ELSE Chars(Head(ps)) \o Concat(Tail(ps))
Tokens == { Concat(ps) : ps \in SeqsUpTo(Pieces, MaxParts) } \cup TokenExamples

InitValue ==
    /\ input \in Tokens
    /\ shape = [kind |-> "token", pre |-> <<input>>, tag |-> "", pad |-> <<>>,
                body |-> <<>>, post |-> <<>>]
    /\ hint = "none"
    /\ pc = "parse_value"
    /\ text = <<>>
    /\ fmt = hint
    /\ inTry = FALSE
    /\ calls = <<>>
    /\ loads = 0
    /\ payload = "none"
    /\ lines = <<>>
    /\ idx = 0
    /\ heap = <<>>
    /\ stack = <<>>
    /\ pops = 0
    /\ outcome = "none"
    /\ exc = NoExc
    /\ result = NoValue
    /\ frames = NoFrames

\* TOONParser._parse_value(value)
CoerceValue ==
    /\ pc = "parse_value"
    /\ Return(ParseValue(input))
    /\ UNCHANGED <<argVars, frames, text, fmt, inTry, calls, loads, payload, toonVars>>

NextValue == CoerceValue
SpecValue == InitValue /\ [][NextValue]_vars

----------------------------------------------------------------------------
(* parse_response with the hint pinned to toon, on texts of up to          *)
(* MaxEdgeLines lines of EdgeVocab: text after a nesting marker, tabs and   *)
(* spaces mixed in the indentation, indents 0 to 3, ":" inside a value, a   *)
(* line of spaces (in the examples), an indented comment with a ":" in it   *)

MaxEdgeLines == 3
EdgeVocab ==
    { Chars("a|: x"), Chars("\tb |: [1]"), Chars(" \td|:"), Chars("  c: 10:30"),
      Chars("   e: 2"), Chars("f: 3"), Chars(" g"), Chars("  # h: 4") }
EdgeExample ==
    << Chars("a|: x"), Chars("   "), Chars("  c: 10:30"), Chars("  # h: 4"), Chars(" \td|:"),
       Chars("   e: 2"), Chars("\tb |: [1]"), Chars("  c: 10:30"), Chars("f: 3") >>
\* lines of spaces between a marker line and its children, at the end of a Map
\* and before a dedent
BlankExamples ==
    { << Chars("a|: x"), Chars("   "), Chars("  c: 10:30") >>,
      << Chars("a|: x"), Chars(" \td|:"), Chars("   "), Chars("   e: 2") >>,
      << Chars("a|: x"), Chars("  c: 10:30"), Chars(""), Chars("   "), Chars("f: 3") >>,
      << Chars("   "), Chars("  c: 10:30"), Chars("   ") >> }
\* a value with a ":" of its own, and a second key: value pair on the same line
TimeExample == << Chars("time: 10:30"), Chars("  u: v: 1") >>
EdgeShapes ==
    { [kind |-> "lines", pre |-> ls, tag |-> "", pad |-> <<>>, body |-> <<>>, post |-> <<>>] :
        ls \in SeqsUpTo(EdgeVocab, MaxEdgeLines) \cup {EdgeExample, TimeExample}
                    \cup BlankExamples }

InitEdge ==
    /\ shape \in EdgeShapes
    /\ input = TextOf(shape)
    /\ hint = "toon"
    /\ pc = "call"
    /\ text = <<>>
    /\ fmt = hint
    /\ inTry = FALSE
    /\ calls = <<>>
    /\ loads = 0
    /\ payload = "none"
    /\ lines = <<>>
    /\ idx = 0
    /\ heap = <<>>
    /\ stack = <<>>
    /\ pops = 0
    /\ outcome = "none"
    /\ exc = NoExc
    /\ result = NoValue
    /\ frames = NoFrames

SpecEdge == InitEdge /\ [][NextToon]_vars

----------------------------------------------------------------------------
(* ClaudePage.extract_text_with_claude from the model's reply on: the      *)
(* reply is up to MaxHtrLines lines of HtrVocab or one of HtrExamples, or   *)
(* the request itself fails                                                 *)

MaxHtrLines == 2
HtrVocab ==
    { Chars("{\"extracted_text\": \"dear"), Chars("sir\"}"), Chars("sir\", \"n\": 1,}"),
      Chars("{\"extracted_text\": \"hi\"}"), Chars("{\"extracted_text\": null}"),
      Chars("{\"n\": 1}"), Chars("Here is the text"),
      Chars("{\"extracted_text\": \"a\tb\"}") }
\* a raw newline in a string before a value nested deeper than RecursionLimit
DeepAfterRepairExample == << Chars("{\"a\": \"x"), Chars("y\", \"b\": [[[1]]]}") >>
HtrExamples ==
    { DeepExample, DeepAfterRepairExample, TwoObjectsExample,
      << Chars("Here is the text"), Chars("{\"extracted_text\": \"dear"), Chars("sir\"}"),
         Chars("Here is the text") >>,
      << Chars("{\"extracted_text\": \"say \\\"x\\\""), Chars("\"}") >> }
HtrShapes ==
    { [kind |-> k, pre |-> ls, tag |-> "", pad |-> <<>>, body |-> <<>>, post |-> <<>>] :
        k \in {"lines", "api_error"}, ls \in SeqsUpTo(HtrVocab, MaxHtrLines) \cup HtrExamples }

\* a returned tuple
Pair(a, b) == [t |-> "tuple", v |-> <<a, b>>]
\* d.get(k, default)
Get(d, k, default) == IF k \in DOMAIN d THEN d[k] ELSE default
\* the dict returned when no object is found or the retry fails
FallbackDict(responseText, notes) ==
    Put(Put(Put(Put(EmptyDict, Chars("extracted_text"), VStr(responseText)),
                Chars("confidence_assessment"), VStr(Chars("unknown"))),
            Chars("text_type"), VStr(Chars("unknown"))),
        Chars("legibility_notes"), VStr(Chars(notes)))
\* {"error": str(e)}
ErrorDict(e) == Put(EmptyDict, Chars("error"), VStr(Chars(e.msg)))
\* an exception of client.messages.create or encode_image
RequestError == [type |-> "Exception", msg |-> "request failed"]

\* content.replace('\n', '\\n').replace('\t', '\\t').replace('\r', '\\r')
RECURSIVE EscapeContent(_)
EscapeContent(c) ==
    IF c = <<>> THEN <<>>
    ELSE (IF c[1] = "\n" THEN <<"\\", "n">>
          ELSE IF c[1] = "\t" THEN <<"\\", "t">>
          ELSE IF c[1] = "\r" THEN <<"\\", "r">>
          ELSE <<c[1]>>) \o EscapeContent(Tail(c))
\* re.sub(r'"([^"]*)"', escape_string_content, json_str)
RECURSIVE EscapeQuoted(_)
EscapeQuoted(s) ==
    LET qs == {i \in 1..Len(s) : s[i] = "\""}
    IN  IF Cardinality(qs) < 2 THEN s
        ELSE LET a == Min(qs)
                 b == Min(qs \ {a})
             IN  SubSeq(s, 1, a) \o EscapeContent(SubSeq(s, a + 1, b - 1)) \o <<"\"">>
                     \o EscapeQuoted(SubSeq(s, b + 1, Len(s)))

InitHtr ==
    /\ shape \in HtrShapes
    /\ input = IF shape.kind = "lines" THEN TextOf(shape) ELSE <<>>
    /\ hint = "none"
    /\ pc = "htr_call"
    /\ text = <<>>
    /\ fmt = "none"
    /\ inTry = TRUE
    /\ calls = <<>>
    /\ loads = 0
    /\ payload = "none"
    /\ lines = <<>>
    /\ idx = 0
    /\ heap = <<>>
    /\ stack = <<>>
    /\ pops = 0
    /\ outcome = "none"
    /\ exc = NoExc
    /\ result = NoValue
    /\ frames = NoFrames

htrKept == <<argVars, frames, fmt, inTry, calls, toonVars>>

\* response_text = message.content[0].text.strip()
HtrResponse ==
    /\ pc = "htr_call" /\ shape.kind = "lines"
    /\ text' = Strip(input)
    /\ pc' = "htr_search"
    /\ UNCHANGED <<htrKept, loads, payload, outcome, exc, result>>
\* the request raises: except Exception as e: return "", {"error": str(e)}
HtrRequestFails ==
    /\ pc = "htr_call" /\ shape.kind = "api_error"
    /\ exc' = RequestError
    /\ result' = Pair(VStr(<<>>), VMap(ErrorDict(RequestError)))
    /\ outcome' = "return"
    /\ pc' = "done"
    /\ UNCHANGED <<htrKept, text, loads, payload>>
\* json_match = re.search(r'\{.*\}', response_text, re.DOTALL); json_str = json_match.group(0)
HtrFound ==
    /\ pc = "htr_search" /\ RawJson(text).found
    /\ payload' = RawJson(text).str
    /\ pc' = "htr_loads"
    /\ UNCHANGED <<htrKept, text, loads, outcome, exc, result>>
\* else: return response_text, {... "No JSON object found in response"}
HtrNotFound ==
    /\ pc = "htr_search" /\ ~RawJson(text).found
    /\ Return(Pair(VStr(text), VMap(FallbackDict(text, "No JSON object found in response"))))
    /\ UNCHANGED <<htrKept, text, loads, payload>>
\* parsed_data = json.loads(...); return parsed_data.get("extracted_text", ""), parsed_data
\* for the first call and for the call on cleaned_json
HtrLoadsOk ==
    /\ pc \in {"htr_loads", "htr_retry"}
    /\ JsonLoads(payload).ok
    /\ loads' = loads + 1
    /\ Return(Pair(Get(JsonLoads(payload).val.v, Chars("extracted_text"), VStr(<<>>)),
                   JsonLoads(payload).val))
    /\ UNCHANGED <<htrKept, text, payload>>
\* except json.JSONDecodeError: cleaned_json = re.sub(...)
HtrRepair ==
    /\ pc = "htr_loads"
    /\ ~JsonLoads(payload).ok /\ JsonLoads(payload).err = "decode"
    /\ loads' = loads + 1
    /\ payload' = EscapeQuoted(payload)
    /\ pc' = "htr_retry"
    /\ UNCHANGED <<htrKept, text, outcome, exc, result>>
\* except json.JSONDecodeError as e: return response_text, {... "Could not parse JSON response"}
HtrRetryFails ==
    /\ pc = "htr_retry"
    /\ ~JsonLoads(payload).ok /\ JsonLoads(payload).err = "decode"
    /\ loads' = loads + 1
    /\ exc' = JSONDecodeError
    /\ result' = Pair(VStr(text), VMap(FallbackDict(text, "Could not parse JSON response")))
    /\ outcome' = "return"
    /\ pc' = "done"
    /\ UNCHANGED <<htrKept, text, payload>>
\* json.loads ends with RecursionError: except Exception as e: return "", {"error": str(e)}
HtrLoadsRecursion ==
    /\ pc \in {"htr_loads", "htr_retry"}
    /\ ~JsonLoads(payload).ok /\ JsonLoads(payload).err = "recursion"
    /\ loads' = loads + 1
    /\ exc' = RecursionError
    /\ result' = Pair(VStr(<<>>), VMap(ErrorDict(RecursionError)))
    /\ outcome' = "return"
    /\ pc' = "done"
    /\ UNCHANGED <<htrKept, text, payload>>

NextHtr ==
    \/ HtrResponse
    \/ HtrRequestFails
    \/ HtrFound
    \/ HtrNotFound
    \/ HtrLoadsOk
    \/ HtrRepair
    \/ HtrRetryFails
    \/ HtrLoadsRecursion

SpecHtr == InitHtr /\ [][NextHtr]_vars

----------------------------------------------------------------------------
(* Two callers run TOONParser.parse at the same time, one line per step.   *)
(* parse is a staticmethod whose state (lines, result, stack) is local:    *)
(* each call has a frame of its own.                                       *)

MaxConcLines == 2
Callers == {"first", "second"}
ConcVocab == { Chars("a|:"), Chars("  b: 1"), Chars("a: 3") }
ConcTexts == { Join(ls) : ls \in SeqsUpTo(ConcVocab, MaxConcLines) }

\* every call of parse runs in the one frame of the first caller
FrameShared(c) == "first"
\* the frame that holds the locals of caller c's call
Frame(c) == c

\* lines = toon_text.strip().split('\n'); result = {}; stack = [(result, -1)]
NewLocals(t) ==
    [lines |-> Split(Strip(t), "\n"), idx |-> 0, heap |-> <<EmptyDict>>,
     stack |-> <<[d |-> 1, indent |-> -1]>>]
\* one iteration of for line in lines, on the locals l
StepLine(l) ==
    LET line == l.lines[l.idx + 1]
        stripped == Strip(line)
        fr == PopTo(l.stack, Indent(line))
        cur == CurrentDict(fr)
        key == Strip(SplitFirst(stripped, ":")[1])
        value == Strip(SplitFirst(stripped, ":")[2])
        new == Len(l.heap) + 1
    IN  IF stripped = <<>> \/ StartsWith(stripped, <<"#">>)
        THEN [l EXCEPT !.idx = l.idx + 1]
        ELSE IF ~Contains(stripped, ":")
        THEN [l EXCEPT !.idx = l.idx + 1, !.stack = fr]
        ELSE IF EndsWith(key, <<"|">>)
        THEN [l EXCEPT
                !.idx = l.idx + 1,
                !.heap = Append([l.heap EXCEPT ![cur] =
                                    Put(l.heap[cur], Strip(SubSeq(key, 1, Len(key) - 1)),
                                        VRef(new))],
                                EmptyDict),
                !.stack = Append(fr, [d |-> new, indent |-> Indent(line)])]
        ELSE [l EXCEPT
                !.idx = l.idx + 1,
                !.heap = [l.heap EXCEPT ![cur] = Put(l.heap[cur], key, ParseValue(value))],
                !.stack = fr]
\* the loop run to its end
RECURSIVE RunLines(_)
RunLines(l) == IF l.idx >= Len(l.lines) THEN l ELSE RunLines(StepLine(l))
\* TOONParser.parse(t) called on its own
ParseAlone(t) == Deref(RunLines(NewLocals(t)).heap, 1)

InitConc ==
    /\ frames \in
          { [call |-> [c \in Callers |-> [text |-> ts[c], pc |-> "call", ret |-> NoValue]],
             locals |-> [c \in Callers |-> NewLocals(<<>>)]] :
            ts \in [Callers -> ConcTexts] }
    /\ shape = [kind |-> "calls", pre |-> <<>>, tag |-> "", pad |-> <<>>,
                body |-> <<>>, post |-> <<>>]
    /\ input = <<>>
    /\ hint = "toon"
    /\ pc = "concurrent"
    /\ text = <<>>
    /\ fmt = hint
    /\ inTry = FALSE
    /\ calls = <<>>
    /\ loads = 0
    /\ payload = "none"
    /\ lines = <<>>
    /\ idx = 0
    /\ heap = <<>>
    /\ stack = <<>>
    /\ pops = 0
    /\ outcome = "none"
    /\ exc = NoExc
    /\ result = NoValue

concVars == <<argVars, pc, text, fmt, inTry, calls, loads, payload, toonVars, outcome,
              exc, result>>

\* caller c enters parse: the three assignments before the loop
ConcStart(c) ==
    /\ frames.call[c].pc = "call"
    /\ frames' = [frames EXCEPT !.call[c].pc = "loop",
                                !.locals[Frame(c)] = NewLocals(frames.call[c].text)]
    /\ UNCHANGED concVars
\* caller c's call handles its next line
ConcLine(c) ==
    /\ frames.call[c].pc = "loop"
    /\ frames.locals[Frame(c)].idx < Len(frames.locals[Frame(c)].lines)
    /\ frames' = [frames EXCEPT !.locals[Frame(c)] = StepLine(frames.locals[Frame(c)])]
    /\ UNCHANGED concVars
\* caller c's call returns result
ConcReturn(c) ==
    /\ frames.call[c].pc = "loop"
    /\ frames.locals[Frame(c)].idx >= Len(frames.locals[Frame(c)].lines)
    /\ frames' = [frames EXCEPT !.call[c].pc = "done",
                                !.call[c].ret = Deref(frames.locals[Frame(c)].heap, 1)]
    /\ UNCHANGED concVars

NextConc ==
    \/ \E c \in Callers : ConcStart(c)
    \/ \E c \in Callers : ConcLine(c)
    \/ \E c \in Callers : ConcReturn(c)

SpecConc == InitConc /\ [][NextConc]_vars

----------------------------------------------------------------------------
(* Documents and text spans the properties below are stated with           *)

Done == pc = "done"
IsFenced == shape.kind = "fenced"
Interior == Join(shape.body)
Dict1(k1, v1) == Put(EmptyDict, Chars(k1), v1)
Dict2(k1, v1, k2, v2) == Put(Dict1(k1, v1), Chars(k2), v2)
Dict3(k1, v1, k2, v2, k3, v3) == Put(Dict2(k1, v1, k2, v2), Chars(k3), v3)

\* the span from the first "{" to the last "}" of s, when "{" comes first
HasBraceSpan(s) == \E i, j \in 1..Len(s) : i < j /\ s[i] = "{" /\ s[j] = "}"
BraceSpan(s) ==
    SubSeq(s, CHOOSE i \in 1..Len(s) : s[i] = "{" /\ \A k \in 1..(i - 1) : s[k] # "{",
              CHOOSE j \in 1..Len(s) : s[j] = "}" /\ \A k \in (j + 1)..Len(s) : s[k] # "}")

\* the object written in a body of JsonBodies
JsonBodyDoc(b) ==
    IF b = << Chars("{\"x\": true}") >> THEN VMap(Dict1("x", VBool(TRUE)))
    ELSE VMap(Dict1("a", VMap(Dict1("b", VList(<<VInt(1), VStr(Chars("c"))>>)))))
\* the document written in a body of ToonBodies
ToonBodyDoc(b) ==
    IF b = << Chars("x: 1") >> THEN VMap(Dict1("x", VInt(1)))
    ELSE VMap(Dict1("title", VMap(Dict1("val", VStr(Chars("hi"))))))

\* the document of the TOONParser docstring example
DocExampleDoc ==
    VMap(Dict2("title", VMap(Dict2("val", VStr(Chars("Letter from John")),
                                   "conf", VStr(Chars("high")))),
               "subjects", VList(<<VStr(Chars("War")), VStr(Chars("Politics"))>>)))

----------------------------------------------------------------------------
(* Properties                                                              *)

\* C1: parsing the docstring example (a "title|" line, two deeper val / conf
\* lines, an unindented subjects line) with hint toon returns title -> Map
\* {val, conf} and subjects -> [War, Politics]; val and conf are not root keys.
C1_DocExampleIsNested ==
    (Done /\ shape.pre = DocExample /\ hint = "toon")
        => (outcome = "return" /\ result = DocExampleDoc)

\* C2: a TOON parse whose lines hold a non-blank, non-comment line without
\* ":" fails; it never returns a Document.
HasNoColonLine ==
    \E i \in 1..Len(lines) :
        LET st == Strip(lines[i])
        IN  st # <<>> /\ st[1] # "#" /\ ~Contains(st, ":")
C2_NoColonLineIsError ==
    (Done /\ calls # <<>> /\ calls[Len(calls)] = "toon" /\ HasNoColonLine)
        => outcome = "raise"

\* C3: with hint auto an error reaches the caller only after both the
\* detected format and the other format have been tried.
C3_AutoErrorAfterBothFormats ==
    (Done /\ hint = "auto" /\ outcome = "raise")
        => (Len(calls) = 2 /\ calls[1] # calls[2])

\* C4: with the hint pinned to json (toon) only the JSON (TOON) parser is
\* entered, at most once, also when it fails; json.loads runs at most once
\* and never for toon.
C4_PinnedHintRunsOnlyItsParser ==
    hint \in {"json", "toon"} =>
        /\ Len(calls) <= 1
        /\ \A i \in 1..Len(calls) : calls[i] = hint
        /\ loads <= 1
        /\ hint = "toon" => loads = 0
        /\ hint = "json" => pc \notin {"parse_toon", "toon_loop", "except"}
C4_Witness ==
    Done /\ hint = "json" /\ outcome = "raise" /\ calls = <<"json">> /\ loads = 1

\* C5: a JSON object whose string value holds a raw line break parses with
\* hint json, after the repair pass and one retry, to the two-line string.
C5_RawNewlineIsRepaired ==
    (Done /\ shape.pre = RawNewlineExample /\ hint = "json")
        => /\ outcome = "return"
           /\ result = VMap(Dict1("note", VStr(Chars("line1\nline2"))))

\* C6: prose, a fence tagged json around a valid JSON object, prose: with
\* hint auto the result is exactly the object inside the fence, whatever the
\* prose lines are.
C6_FencedJsonUnderAuto ==
    (Done /\ hint = "auto" /\ IsFenced /\ shape.tag = "json" /\ shape.body \in JsonBodies)
        => (outcome = "return" /\ result = JsonBodyDoc(shape.body))
C6_Witness ==
    /\ Done /\ hint = "auto" /\ IsFenced /\ shape.tag = "json"
    /\ shape.pre = << Chars("note: hi") >> /\ shape.post = << Chars("see {x}") >>
    /\ result = JsonBodyDoc(shape.body)

\* C7: every value parse_response returns is a Map at the root.
C7_ReturnIsMap == outcome = "return" => result.t = "map"
C7_Witness == outcome = "return" /\ loads = 1 /\ result.t = "map" /\ DOMAIN result.v # {}

\* C8 as stated, on texts whose fenced block (if any) holds a JSON object:
\* with a fenced block tagged json the JSON payload is its interior; only
\* without one is it the span from the first "{" to the last "}".
C8_Original ==
    (pc = "json_loads" /\ (IsFenced => shape.body \in JsonBodies)) =>
        payload = IF IsFenced /\ shape.tag = "json" THEN Interior ELSE BraceSpan(text)
\* C8 amended: the fenced block counts when it is tagged json or untagged and
\* its interior is a {...} span; then the payload is that interior, braces in
\* the prose notwithstanding.  In every other case that has a payload it is the
\* span from the first "{" to the last "}" of the whole text.
C8_FencedObjectElseBraceSpan ==
    pc = "json_loads" =>
        payload = IF IsFenced /\ shape.tag \in {"json", ""} /\ shape.body \in JsonBodies
                  THEN Interior
                  ELSE BraceSpan(text)
C8_Witness ==
    /\ pc = "json_loads" /\ IsFenced /\ shape.tag = "" /\ shape.body \in JsonBodies
    /\ shape.pre = << Chars("see {x}") >> /\ shape.post = << Chars("see {x}") >>
    /\ payload = Interior

\* C9: when _parse_json runs on a text with no "{" followed later by "}" (so
\* with no fenced object either), it raises the ValueError "No JSON found in
\* response" and json.loads is never invoked; under the hints json and auto
\* that error is the outcome of the call and nothing is returned.
C9_NoPayloadFound ==
    (calls # <<>> /\ calls[1] = "json" /\ ~HasBraceSpan(text)) =>
        /\ loads = 0
        /\ pc # "json_loads"
        /\ exc = ValueError("No JSON found in response")
        /\ hint \in {"json", "auto"} => (Done /\ outcome = "raise" /\ result = NoValue)
C9_Witness ==
    /\ Done /\ hint = "json" /\ Contains(text, "{") /\ ~HasBraceSpan(text)
    /\ outcome = "raise" /\ loads = 0

\* C10 as stated: with a fenced block tagged toon or untagged the TOON payload
\* is its interior; otherwise it is the entire text.
C10_Original ==
    pc = "toon_loop" =>
        payload = IF IsFenced /\ shape.tag \in {"toon", ""} THEN Interior ELSE text
\* C10 amended: any pair of fence markers counts.  The payload is the text
\* between the first two markers without a leading toon tag and without the
\* whitespace around it, so a tag other than toon stays in the payload; only a
\* text without a pair of fence markers is the payload as a whole.  For a block
\* tagged toon or untagged the Document holds the keys of the interior only.
C10_FencedElseWholeText ==
    /\ pc = "toon_loop" =>
        payload = IF IsFenced
                  THEN Strip((IF shape.tag = "toon" THEN <<>> ELSE Chars(shape.tag))
                             \o shape.pad \o <<"\n">> \o Interior \o <<"\n">> \o shape.pad)
                  ELSE text
    /\ (Done /\ calls = <<"toon">> /\ IsFenced /\ shape.tag \in {"toon", ""}
             /\ shape.body \in ToonBodies)
        => result = ToonBodyDoc(shape.body)
C10_Witness ==
    /\ Done /\ calls = <<"toon">> /\ IsFenced /\ shape.tag = "toon"
    /\ shape.pre = << Chars("note: hi") >> /\ shape.post = << Chars("note: hi") >>
    /\ shape.body \in ToonBodies /\ result = ToonBodyDoc(shape.body)
C10_WitnessOtherTag ==
    /\ pc = "toon_loop" /\ IsFenced /\ shape.tag = "json" /\ shape.pre # <<>>
    /\ StartsWith(payload, Chars("json"))

\* C11: under hint auto the detector's decision is total and ordered.  It is
\* json when some line of the trimmed text begins, after leading whitespace,
\* with "{", TOON-looking lines notwithstanding; otherwise toon when some line
\* begins with word characters, an optional "|", then ":"; otherwise json.
\* It is never another value.
BeginsWithBrace(line) == StartsWith(LStrip(line), <<"{">>)
BeginsWithKey(line) ==
    \E n \in 1..Len(line) :
        /\ \A i \in 1..n : line[i] \in WordChars
        /\ MatchAt(line, n + 1, <<":">>) \/ MatchAt(line, n + 1, <<"|", ":">>)
C11_WitnessIndentedKey ==
    /\ hint = "auto" /\ pc = "dispatch" /\ fmt = "json" /\ shape.kind = "lines"
    /\ \E i \in 1..Len(shape.pre) : BeginsWithKey(LStrip(shape.pre[i]))
    /\ \A i \in 1..Len(shape.pre) : ~BeginsWithBrace(shape.pre[i])

\* C12: whatever the text and the hint, a call that fails reaches the caller
\* as a ValueError: the decode error of json.loads is wrapped and never leaves
\* parse_response under its own type, neither directly nor through the
\* fallback of an unknown hint.
C12_FailureIsValueError ==
    /\ outcome = "raise" => (Done /\ exc.type = "ValueError" /\ result = NoValue)
    /\ exc.type \in {"none", "ValueError"}

\* C13: a trimmed token that starts with "[" and ends with "]" becomes a list:
\* the interior is cut at its commas and every piece trimmed; the pieces stay
\* strings, in their order, with no further coercion; an empty or blank
\* interior gives the empty list.  No other token becomes a list, and no
\* bracketed token is taken by another coercion rule.
IsBracketed(v) == Len(v) >= 2 /\ v[1] = "[" /\ v[Len(v)] = "]"
CutsOf(s) == {i \in 1..Len(s) : s[i] = ","} \cup {0, Len(s) + 1}
\* the k-th piece of s between its commas
PieceOf(s, k) ==
    LET lo == CHOOSE x \in CutsOf(s) : Cardinality({y \in CutsOf(s) : y < x}) = k - 1
        hi == CHOOSE x \in CutsOf(s) : Cardinality({y \in CutsOf(s) : y < x}) = k
    IN  SubSeq(s, lo + 1, hi - 1)
C13_BracketedIsListOfStrings ==
    Done =>
        LET v == Strip(input)
            inner == Strip(SubSeq(v, 2, Len(v) - 1))
        IN  /\ outcome = "return"
            /\ result.t = "list" <=> IsBracketed(v)
            /\ IsBracketed(v) =>
                  IF inner = <<>> THEN result.v = <<>>
                  ELSE /\ Len(result.v) = Cardinality(CutsOf(inner)) - 1
                       /\ \A k \in 1..Len(result.v) :
                             result.v[k] = VStr(Strip(PieceOf(inner, k)))
C13_Witness ==
    /\ Done /\ input = Chars("[1, true, null]")
    /\ result = VList(<<VStr(Chars("1")), VStr(Chars("true")), VStr(Chars("null"))>>)
C13_WitnessBlank ==
    Done /\ input = Chars("[ ]") /\ result = VList(<<>>)

\* C14: a non-empty, non-bracketed token is coerced by the first rule that
\* matches, in the order boolean, null, integer, float.  true / false in any
\* letter case is the boolean and nothing else is; null / none in any letter
\* case is None and nothing else is.  A token without "." that reads as an
\* integer is an int; a token is a float only when it holds "." and reads as
\* a number.  A token without "." is never a float, one with "." never an int.
AllIn(s, cs) == \A i \in 1..Len(s) : s[i] \in cs
\* optional sign, then digits only
PlainInt(v) == Unsigned(v) # <<>> /\ AllIn(Unsigned(v), Digits)
\* optional sign, digits, ".", digits
PlainDecimal(v) ==
    \E i \in 2..(Len(Unsigned(v)) - 1) :
        /\ Unsigned(v)[i] = "."
        /\ AllIn(SubSeq(Unsigned(v), 1, i - 1), Digits)
        /\ AllIn(SubSeq(Unsigned(v), i + 1, Len(Unsigned(v))), Digits)
C14_ScalarCoercionOrder ==
    (Done /\ Strip(input) # <<>> /\ ~IsBracketed(Strip(input))) =>
        LET v == Strip(input)
        IN  /\ result = VBool(TRUE) <=> Lower(v) = Chars("true")
            /\ result = VBool(FALSE) <=> Lower(v) = Chars("false")
            /\ result.t = "bool" => result.v \in BOOLEAN
            /\ result = VNull <=> Lower(v) \in {Chars("null"), Chars("none")}
            /\ result.t = "null" => result = VNull
            /\ PlainInt(v) => result.t = "int"
            /\ PlainDecimal(v) => result.t = "float"
            /\ result.t = "int" =>
                  /\ ~Contains(v, ".")
                  /\ AllIn(v, Digits \cup {"+", "-", "_"})
                  /\ (v[1] = "-" => result.v <= 0) /\ (v[1] # "-" => result.v >= 0)
            /\ result.t = "float" =>
                  /\ Contains(v, ".")
                  /\ AllIn(v, Digits \cup {"+", "-", "_", ".", "e", "E"})
            /\ result.t \in {"bool", "null", "int", "float", "str"}
C14_Witness == Done /\ input = Chars("True") /\ result = VBool(TRUE)
C14_WitnessNull == Done /\ input = Chars("None") /\ result = VNull
C14_WitnessInt == Done /\ input = Chars("-10") /\ result = VInt(-10)
C14_WitnessFloat == Done /\ input = Chars("-0.50") /\ result = VFloat(-5, 1)
C14_WitnessNoPoint == Done /\ input = Chars("1e1") /\ result = VStr(Chars("1e1"))
C14_WitnessPoint == Done /\ input = Chars("1.5e3") /\ result = VFloat(1500, 0)

\* C15: coercion is total.  _parse_value returns for every token and raises
\* nothing; an empty or blank token gives the empty string; a token that is
\* not bracketed, not a boolean or null word and not a number (1.2.3, a number
\* with letters, text) comes back as the trimmed token, character by character.
NotANumber(v) ==
    \/ ~AllIn(v, Digits \cup {"+", "-", "_", ".", "e", "E"})
    \/ Cardinality({i \in 1..Len(v) : v[i] = "."}) > 1
    \/ \A i \in 1..Len(v) : v[i] \notin Digits
C15_CoercionIsTotal ==
    Done =>
        LET v == Strip(input)
        IN  /\ outcome = "return" /\ exc = NoExc
            /\ result.t \in {"str", "list", "bool", "null", "int", "float"}
            /\ v = <<>> => result = VStr(<<>>)
            /\ result.t = "str" => result.v = v
            /\ ( /\ ~IsBracketed(v)
                 /\ Lower(v) \notin {Chars("true"), Chars("false"), Chars("null"), Chars("none")}
                 /\ NotANumber(v) ) => result = VStr(v)
C15_Witness == Done /\ input = Chars("1.2.3") /\ result = VStr(Chars("1.2.3"))
C15_WitnessBlank == Done /\ input = Chars(" ") /\ result = VStr(<<>>)
C15_WitnessText ==
    Done /\ input = Chars("Truea ") /\ result = VStr(Chars("Truea"))

----------------------------------------------------------------------------
(* The lines of a TOON text read declaratively, for the properties of      *)
(* TOONParser.parse: what a line declares and which earlier line owns it   *)

Bare(i) == Strip(lines[i])
Unskipped(i) == Bare(i) # <<>> /\ Bare(i)[1] # "#"
Declares(i) == Unskipped(i) /\ Contains(Bare(i), ":")
ColonAt(i) == Min({j \in 1..Len(Bare(i)) : Bare(i)[j] = ":"})
KeyText(i) == Strip(SubSeq(Bare(i), 1, ColonAt(i) - 1))
ValueText(i) == SubSeq(Bare(i), ColonAt(i) + 1, Len(Bare(i)))
OpensMap(i) == Declares(i) /\ KeyText(i) # <<>> /\ KeyText(i)[Len(KeyText(i))] = "|"
KeyName(i) ==
    IF OpensMap(i) THEN Strip(SubSeq(KeyText(i), 1, Len(KeyText(i)) - 1)) ELSE KeyText(i)
\* the line that owns line i: the nearest earlier marker line that is indented
\* less than i with only deeper indented lines between it and i; 0 is the root
Owner(i) ==
    Max({0} \cup {j \in 1..(i - 1) :
                    /\ OpensMap(j) /\ Indent(lines[j]) < Indent(lines[i])
                    /\ \A m \in (j + 1)..(i - 1) :
                          Unskipped(m) => Indent(lines[m]) > Indent(lines[j])})
\* the Map a marker line made, counted in the order of creation; 1 is the root
MapOf(j) == 1 + Cardinality({m \in 1..j : OpensMap(m)})
Parsing == pc = "toon_loop" \/ (Done /\ calls # <<>> /\ calls[Len(calls)] = "toon")
\* the lines handled so far that declare key k in Map d
DeclsOf(d, k) ==
    {i \in 1..idx : Declares(i) /\ MapOf(Owner(i)) = d /\ KeyName(i) = k}

\* C16: when all lines are handled a key of a Map holds what the last line
\* that declared it at that nesting level says, and nothing of the earlier
\* declarations: the coerced value of a key: value line, or, for a nesting
\* marker line, the Map made by that very line, whose entries all come from
\* lines it owns (so from later lines only).
C16_LastWriteWins ==
    (Parsing /\ idx = Len(lines)) =>
        \A d \in 1..Len(heap) :
            /\ \A i \in 1..idx :
                  (Declares(i) /\ MapOf(Owner(i)) = d) => KeyName(i) \in DOMAIN heap[d]
            /\ \A k \in DOMAIN heap[d] :
                  /\ DeclsOf(d, k) # {}
                  /\ LET last == Max(DeclsOf(d, k))
                     IN  heap[d][k] = IF OpensMap(last) THEN VRef(MapOf(last))
                                      ELSE ParseValue(ValueText(last))
C16_Witness ==
    /\ Done /\ shape.pre = << Chars("a|:"), Chars("  b: 1"), Chars("a|:") >>
    /\ result = VMap(Dict1("a", VMap(EmptyDict)))
C16_WitnessScalar ==
    /\ Done /\ shape.pre = << Chars("a|:"), Chars("  b: 1"), Chars("  b: 2") >>
    /\ result = VMap(Dict1("a", VMap(Dict1("b", VInt(2)))))
C16_WitnessOverMap ==
    /\ Done /\ shape.pre = << Chars("a|:"), Chars("  b: 1"), Chars("a: 3") >>
    /\ result = VMap(Dict1("a", VInt(3)))

----------------------------------------------------------------------------
(* A Document written back in the indentation notation.  parsers.py has no *)
(* serializer; this one follows the notation the parser reads: one          *)
(* "key: value" line per entry, "key|:" for a Map with its entries two      *)
(* columns deeper, "[a, b]" for a list, true / false / null, decimal        *)
(* numbers with a "." in every float.                                       *)

RECURSIVE NatText(_)
NatText(n) ==
    IF n < 10 THEN <<DigitChars[n + 1]>> ELSE NatText(n \div 10) \o <<DigitChars[(n % 10) + 1]>>
RECURSIVE ZeroPadded(_, _)
ZeroPadded(ds, n) == IF Len(ds) >= n THEN ds ELSE ZeroPadded(<<"0">> \o ds, n)
RECURSIVE ValueTextOf(_)
RECURSIVE ItemsText(_)
\* the items of a list, ", " between them
ItemsText(xs) ==
    IF xs = <<>> THEN <<>>
    ELSE IF Len(xs) = 1 THEN ValueTextOf(xs[1])
    ELSE ValueTextOf(xs[1]) \o <<",", " ">> \o ItemsText(Tail(xs))
ValueTextOf(v) ==
    IF v.t = "str" THEN v.v
    ELSE IF v.t = "bool" THEN (IF v.v THEN Chars("true") ELSE Chars("false"))
    ELSE IF v.t = "null" THEN Chars("null")
    ELSE IF v.t = "int" THEN
        (IF v.v < 0 THEN <<"-">> ELSE <<>>) \o NatText(IF v.v < 0 THEN -v.v ELSE v.v)
    ELSE IF v.t = "float" THEN
        LET m == IF v.v[1] < 0 THEN -v.v[1] ELSE v.v[1]
            ds == ZeroPadded(NatText(m), v.v[2] + 1)
            cut == Len(ds) - v.v[2]
        IN  (IF v.v[1] < 0 THEN <<"-">> ELSE <<>>) \o SubSeq(ds, 1, cut) \o <<".">>
                \o (IF v.v[2] = 0 THEN <<"0">> ELSE SubSeq(ds, cut + 1, Len(ds)))
    ELSE <<"[">> \o ItemsText(v.v) \o <<"]">>
RECURSIVE SerializeMap(_, _, _)
SerializeMap(d, keys, pad) ==
    IF keys = {} THEN <<>>
    ELSE LET k == CHOOSE x \in keys : TRUE
         IN  (IF d[k].t = "map"
              THEN <<pad \o k \o Chars("|:")>>
                       \o SerializeMap(d[k].v, DOMAIN d[k].v, pad \o Chars("  "))
              ELSE <<pad \o k \o Chars(": ") \o ValueTextOf(d[k])>>)
             \o SerializeMap(d, keys \ {k}, pad)
Serialize(doc) == Join(SerializeMap(doc.v, DOMAIN doc.v, <<>>))

C19_SinglePass ==
    /\ [](Parsing =>
            /\ idx \in 0..Len(lines)
            /\ Len(heap) - 1 = Cardinality({i \in 1..idx : OpensMap(i)})
            /\ pops <= Len(heap) - 1
            /\ Len(stack) = 1 + (Len(heap) - 1) - pops
            /\ Done => idx = Len(lines))
    /\ [][pc = "toon_loop" =>
            \/ idx < Len(lines) /\ idx' = idx + 1 /\ lines' = lines /\ pc' = "toon_loop"
            \/ idx = Len(lines) /\ idx' = idx /\ pc' = "done" /\ outcome' = "return"]_vars
C19_Witness ==
    /\ Done /\ outcome = "return" /\ idx = 3 /\ Len(heap) - 1 = 2 /\ pops = 2
    /\ Len(stack) = 1

\* C20: the Maps of a TOON parse form a tree.  No Map is referenced from two
\* keys or two parents, the root is referenced by none, a reference always
\* leads to a Map made later than its holder (no cycles), and every Map that
\* is still open on the stack is the root or has exactly one referencing key.
RefsTo(id) ==
    {dk \in UNION {{<<d, k>> : k \in DOMAIN heap[d]} : d \in 1..Len(heap)} :
        heap[dk[1]][dk[2]] = VRef(id)}
C20_DocumentIsTree ==
    Parsing =>
        /\ RefsTo(1) = {}
        /\ \A id \in 2..Len(heap) : Cardinality(RefsTo(id)) <= 1
        /\ \A d \in 1..Len(heap) : \A k \in DOMAIN heap[d] :
              heap[d][k].t = "ref" => heap[d][k].v \in (d + 1)..Len(heap)
        /\ \A f \in 1..Len(stack) :
              stack[f].d = 1 \/ Cardinality(RefsTo(stack[f].d)) = 1
C20_Witness ==
    /\ Parsing /\ Len(heap) = 4 /\ Len(stack) = 3
    /\ Cardinality(RefsTo(2)) = 0 /\ Cardinality(RefsTo(3)) = 1
    /\ Cardinality(RefsTo(4)) = 1

\* what the step that handles line i writes: the new Map of a marker line, the
\* coerced value of a key: value line
Written(i) == IF OpensMap(i) THEN VRef(MapOf(i)) ELSE ParseValue(ValueText(i))
\* the step changes Map d at key k only, and no other Map
WritesOnly(d, k) ==
    /\ k \in DOMAIN heap'[d]
    /\ \A e \in 1..Len(heap) : e # d => heap'[e] = heap[e]
    /\ DOMAIN heap'[d] = DOMAIN heap[d] \cup {k}
    /\ \A j \in DOMAIN heap[d] \ {k} : heap'[d][j] = heap[d][j]

\* C21: the active frame.  The step that handles a key: value line or a
\* nesting-marker line writes its key into the Map of the nearest earlier
\* marker line that is indented strictly less than the line and has no handled
\* line (blank lines and comments are not handled) of its own indent or less
\* between itself and the line; into the root when there is no such marker.
\* After the step that Map is the top frame, or the frame under the one a
\* marker line has just pushed.  A line at the indent of a marker line
\* therefore goes where the marker's key went, not into the marker's Map.
C21_ActiveFrame ==
    [][(pc = "toon_loop" /\ idx < Len(lines) /\ Declares(idx + 1)) =>
         LET i == idx + 1
             d == MapOf(Owner(i))
         IN  /\ WritesOnly(d, KeyName(i))
             /\ heap'[d][KeyName(i)] = Written(i)
             /\ IF OpensMap(i)
                THEN /\ stack'[Len(stack')] = [d |-> MapOf(i), indent |-> Indent(lines[i])]
                     /\ stack'[Len(stack') - 1].d = d
                ELSE stack'[Len(stack')].d = d]_vars
C21_Witness ==
    /\ Done /\ shape.pre = << Chars("a|:"), Chars("  a|:"), Chars("  b: 1") >>
    /\ result = VMap(Dict1("a", VMap(Dict2("a", VMap(EmptyDict), "b", VInt(1)))))
C21_WitnessDedent ==
    /\ Done /\ shape.pre = << Chars("a|:"), Chars("    b: 4"), Chars("  b: 2") >>
    /\ result = VMap(Dict1("a", VMap(Dict1("b", VInt(2)))))
C21_WitnessRoot ==
    /\ Done /\ shape.pre = << Chars("a|:"), Chars("junk"), Chars("  b: 1") >>
    /\ result = VMap(Dict2("a", VMap(EmptyDict), "b", VInt(1)))

\* C22: the frame stack.  From the start of a TOON parse on, the stack is never
\* empty, its bottom frame is the root Map with level -1, the levels grow
\* strictly from bottom to top, every frame above the bottom one holds a Map
\* other than the root, and the pop loop of the line about to be handled
\* leaves at least the bottom frame, so "stack[-1][0] if stack else result"
\* never takes its else.
C22_StackInvariant ==
    Parsing =>
        /\ stack # <<>>
        /\ stack[1] = [d |-> 1, indent |-> -1]
        /\ \A f \in 1..(Len(stack) - 1) :
              stack[f].indent < stack[f + 1].indent /\ stack[f + 1].d # 1
        /\ (InLoop /\ ~IsSkipped) => (Frames # <<>> /\ Frames[1] = stack[1])
C22_Witness ==
    /\ Parsing /\ Len(stack) = 3 /\ Len(heap) = 4
    /\ stack[1].indent = -1 /\ stack[2].indent = 0 /\ stack[3].indent = 2
C22_WitnessPoppedToRoot ==
    /\ InLoop /\ ~IsSkipped /\ Len(stack) = 3 /\ Len(Frames) = 1

\* a step of the loop that handles a key: value line or a nesting-marker line
HandlesKey == pc = "toon_loop" /\ idx < Len(lines) /\ Declares(idx + 1)
\* the frames below the one a marker line has just pushed, all frames otherwise
FramesFor(stk, i) == IF OpensMap(i) THEN SubSeq(stk, 1, Len(stk) - 1) ELSE stk
\* marker line j is still open at line i: every handled line after j up to i
\* is indented more than j
StillOpen(j, i) ==
    \A m \in (j + 1)..i : Unskipped(m) => Indent(lines[m]) > Indent(lines[j])
\* a marker line cut after its first ":"
CutMarkerText(line) ==
    LET at == Min({j \in 1..Len(line) : line[j] = ":"}) IN SubSeq(line, 1, at)
MarkerTextCut == [i \in 1..Len(lines) |-> IF OpensMap(i) THEN CutMarkerText(lines[i]) ELSE lines[i]]

\* C23: the nesting marker.  The step that handles a line whose trimmed key
\* ends with "|" makes one new empty Map, puts it under the key without the
\* marker (trimmed again) in the active frame, and pushes (new Map, indent of
\* the line).  From then on the new Map's frame is below or at the frame that
\* receives a key exactly as long as every handled line since the marker line
\* is indented more than the marker line; the first handled line of its
\* indent or less removes it for good.  The text after the ":" of a marker
\* line is discarded: the Document is the one the same lines give with that
\* text cut away.
C23_NestingMarker ==
    /\ [][(pc = "toon_loop" /\ idx < Len(lines) /\ OpensMap(idx + 1)) =>
            LET i == idx + 1
                new == Len(heap) + 1
                active == FramesFor(stack', i)
            IN  /\ Len(heap') = new /\ heap'[new] = EmptyDict
                /\ KeyName(i) \in DOMAIN heap'[active[Len(active)].d]
                /\ heap'[active[Len(active)].d][KeyName(i)] = VRef(new)
                /\ "|" \notin Range(KeyName(i)) /\ KeyName(i) = Strip(KeyName(i))
                /\ stack'[Len(stack')] = [d |-> new, indent |-> Indent(lines[i])]]_vars
    /\ [][HandlesKey =>
            LET i == idx + 1
                active == FramesFor(stack', i)
            IN  /\ KeyName(i) \in DOMAIN heap'[active[Len(active)].d]
                /\ \A j \in 1..idx :
                      OpensMap(j) =>
                          (StillOpen(j, i) <=> \E f \in 1..Len(active) : active[f].d = MapOf(j))]_vars
    /\ []((Parsing /\ Done) => result = ParseAlone(Join(MarkerTextCut)))
C23_Witness ==
    /\ Done /\ shape.pre = << Chars("a|: x"), Chars("\tb |: [1]"), Chars("   e: 2") >>
    /\ result = VMap(Dict1("a", VMap(Dict1("b", VMap(Dict1("e", VInt(2)))))))
C23_WitnessClosed ==
    /\ Done /\ shape.pre = << Chars("a|: x"), Chars("  c: 10:30"), Chars("f: 3") >>
    /\ result = VMap(Dict2("a", VMap(Dict1("c", VStr(Chars("10:30")))), "f", VInt(3)))

\* the lines that are neither blank nor comments
IsContent(line) == Strip(line) # <<>> /\ Strip(line)[1] # "#"
ContentLines == SelectSeq(lines, IsContent)
\* the loop of TOONParser.parse run over the lines ls as they are
DocumentOf(ls) ==
    Deref(RunLines([lines |-> ls, idx |-> 0, heap |-> <<EmptyDict>>,
                    stack |-> <<[d |-> 1, indent |-> -1]>>]).heap, 1)

\* C24: blank lines and comments.  The step that handles a line whose trimmed
\* content is empty or starts with "#" changes neither a Map nor the frame
\* stack, whatever the line's indent and whatever it has after the "#".  So
\* the Document is the one the loop gives without those lines, and when the
\* first line of the trimmed text is a content line it is the Document of the
\* text with all those lines removed.
C24_SkippedLinesHaveNoEffect ==
    /\ [][(pc = "toon_loop" /\ idx < Len(lines) /\ ~Unskipped(idx + 1)) =>
            (heap' = heap /\ stack' = stack /\ idx' = idx + 1 /\ pc' = pc)]_vars
    /\ []((Parsing /\ Done) =>
            /\ result = DocumentOf(ContentLines)
            /\ Unskipped(1) => result = ParseAlone(Join(ContentLines)))
C24_Witness ==
    /\ Done /\ shape.pre = << Chars("a|: x"), Chars(" \td|:"), Chars("  # h: 4") >>
    /\ Len(stack) = 3 /\ ContentLines = << Chars("a|: x"), Chars(" \td|:") >>
    /\ result = VMap(Dict1("a", VMap(Dict1("d", VMap(EmptyDict)))))
C24_WitnessBlank ==
    /\ Done /\ shape.pre = << Chars("a|: x"), Chars("   "), Chars("  c: 10:30") >>
    /\ result = VMap(Dict1("a", VMap(Dict1("c", VStr(Chars("10:30"))))))
\* a comment before the first content line is outside the claim: the first
\* content line keeps its indent then
C24_WitnessLeadingComment ==
    /\ Done /\ shape.pre = << Chars("  # h: 4"), Chars(" \td|:"), Chars("  c: 10:30") >>
    /\ result = VMap(Dict2("d", VMap(EmptyDict), "c", VStr(Chars("10:30"))))
    /\ ParseAlone(Join(ContentLines)) = VMap(Dict1("d", VMap(Dict1("c", VStr(Chars("10:30"))))))

\* every key of every Map made so far
AllKeys == UNION {DOMAIN heap[d] : d \in 1..Len(heap)}

\* C25: the first ":" splits.  The step that handles a key: value line writes
\* exactly one key, the trimmed text before the first ":" of the line, and
\* gives it the coerced trimmed text after that ":", whole: a value that has
\* a ":" inside and is no list stays one string with its ":" in it.  No key of
\* any Map contains a ":", and a step adds at most one key.
C25_SplitAtFirstColon ==
    /\ [][(HandlesKey /\ ~OpensMap(idx + 1)) =>
            LET i == idx + 1
                d == stack'[Len(stack')].d
                rest == Strip(ValueText(i))
            IN  /\ Len(heap') = Len(heap)
                /\ WritesOnly(d, KeyText(i))
                /\ ~Contains(KeyText(i), ":")
                /\ heap'[d][KeyText(i)] = ParseValue(rest)
                /\ (Contains(rest, ":") /\ ~IsBracketed(rest)) =>
                      heap'[d][KeyText(i)] = VStr(rest)]_vars
    /\ [](Parsing => \A k \in AllKeys : ~Contains(k, ":"))
C25_Witness ==
    /\ Done /\ shape.pre = TimeExample
    /\ result = VMap(Dict2("time", VStr(Chars("10:30")), "u", VStr(Chars("v: 1"))))
C25_WitnessNested ==
    /\ Done /\ shape.pre = << Chars("a|: x"), Chars("  c: 10:30") >>
    /\ result = VMap(Dict1("a", VMap(Dict1("c", VStr(Chars("10:30"))))))

\* the number of whitespace characters a line starts with
LeadingSpace(line) == Min({j \in 1..Len(line) : line[j] \notin Space} \cup {Len(line) + 1}) - 1
\* the topmost frame of the stack whose level is below n
FrameBelow(n) == Max({f \in 1..Len(stack) : stack[f].indent < n})

\* C26: any indentation is accepted.  Whatever the indent widths of the lines
\* (a tab or a space each count one; levels that match no open frame; a
\* dedent to a level between two open frames), the parse returns a Map and
\* raises nothing, every step of the loop goes on to the next line or returns
\* without an exception, and the step that
\* handles a line with a ":" (no blank line, no comment) writes its key into
\* exactly one Map: the Map of the topmost frame whose level is below the
\* number of whitespace characters the line starts with.  The frames above
\* that one are dropped and a marker line's frame is pushed with that number.
C26_AnyIndentIsAccepted ==
    /\ []((Parsing /\ Done) => (outcome = "return" /\ exc = NoExc /\ result.t = "map"))
    /\ [][pc = "toon_loop" =>
            \/ pc' = "toon_loop" /\ idx' = idx + 1 /\ exc' = NoExc
            \/ pc' = "done" /\ outcome' = "return" /\ exc' = NoExc]_vars
    /\ [][HandlesKey =>
            LET i == idx + 1
                n == LeadingSpace(lines[i])
                f == FrameBelow(n)
            IN  /\ WritesOnly(stack[f].d, KeyName(i))
                /\ SubSeq(stack', 1, f) = SubSeq(stack, 1, f)
                /\ IF OpensMap(i)
                   THEN Len(stack') = f + 1 /\ stack'[f + 1].indent = n
                   ELSE Len(stack') = f]_vars
C26_Witness ==
    /\ Done /\ shape.pre = << Chars("a|: x"), Chars(" \td|:"), Chars("\tb |: [1]") >>
    /\ Len(stack) = 3 /\ stack[2].indent = 0 /\ stack[3].indent = 1
    /\ result = VMap(Dict1("a", VMap(Dict2("d", VMap(EmptyDict), "b", VMap(EmptyDict)))))
C26_WitnessUnaligned ==
    /\ Done /\ shape.pre = << Chars("a|: x"), Chars("\tb |: [1]"), Chars("   e: 2") >>
    /\ stack[3].indent = 1 /\ LeadingSpace(lines[3]) = 3

\* the last line handled so far that is no blank line and no comment, 0 if none
LastHandled == Max({0} \cup {m \in 1..idx : Unskipped(m)})
PlainPair(i) == Declares(i) /\ ~OpensMap(i)
\* the kinds of value _parse_value gives
ScalarKinds == {"str", "bool", "null", "int", "float", "list"}

\* C27: indentation alone never nests.  When the last handled line is a plain
\* key: value line, its key is in the Map of the top frame, and a line with
\* ":" that follows indented deeper pops nothing and writes into that same
\* Map.  The Maps other than the root are exactly the ones made by the
\* nesting-marker lines handled so far, one each; a value that is no such Map
\* is a string, a boolean, null, a number or a list; and a text without a
\* marker line gives a Document without any Map inside.
C27_IndentAloneNeverNests ==
    /\ [](Parsing =>
            /\ Len(heap) = 1 + Cardinality({i \in 1..idx : OpensMap(i)})
            /\ \A d \in 1..Len(heap) : \A k \in DOMAIN heap[d] :
                  IF heap[d][k].t = "ref"
                  THEN \E j \in 1..idx : OpensMap(j) /\ KeyName(j) = k /\ MapOf(j) = heap[d][k].v
                  ELSE heap[d][k].t \in ScalarKinds
            /\ (LastHandled > 0 /\ PlainPair(LastHandled)) =>
                  KeyName(LastHandled) \in DOMAIN heap[stack[Len(stack)].d]
            /\ (Done /\ \A i \in 1..Len(lines) : ~OpensMap(i)) =>
                  \A k \in DOMAIN result.v : result.v[k].t \in ScalarKinds)
    /\ [][(HandlesKey /\ LastHandled > 0 /\ PlainPair(LastHandled)
             /\ Indent(lines[idx + 1]) > Indent(lines[LastHandled])) =>
            LET i == idx + 1
                active == FramesFor(stack', i)
            IN  /\ active = stack
                /\ WritesOnly(stack[Len(stack)].d, KeyName(i))]_vars
C27_Witness ==
    /\ Done /\ shape.pre = << Chars("a: 3"), Chars("    b: 4") >>
    /\ result = VMap(Dict2("a", VInt(3), "b", VInt(4)))
C27_WitnessInside ==
    /\ Done /\ shape.pre = << Chars("a|:"), Chars("  b: 1"), Chars("    b: 4") >>
    /\ result = VMap(Dict1("a", VMap(Dict1("b", VInt(4)))))
C27_WitnessEmptyValue ==
    /\ Done /\ shape.pre = ValuesExample /\ result.v[Chars("g")] = VStr(<<>>)
    /\ Len(heap) = 3

\* the lines of the text as it was given
OrigLines == Split(input, "\n")
\* all lines of the given text are content lines indented by n
UniformIndent(n) ==
    \A i \in 1..Len(OrigLines) : IsContent(OrigLines[i]) /\ LeadingSpace(OrigLines[i]) = n
\* the given lines with n leading characters taken away
Dedented(n) == [i \in 1..Len(OrigLines) |-> SubSeq(OrigLines[i], n + 1, Len(OrigLines[i]))]

\* C28: the text is trimmed before indents are measured.  The first line of a
\* TOON parse always has indent 0, whatever indentation it had in the text;
\* the later lines keep theirs (counted from a first line that is not blank).
\* So when every line of the text is indented
\* by the same n > 0 and the first line is a nesting marker, the root holds
\* the marker's key only and every later line with a ":" has its key inside
\* the first Map, while the same lines without the n leading characters put
\* those keys into the root: the two Documents differ as soon as a later line
\* has a ":".
C28_TrimBeforeIndent ==
    Parsing =>
        /\ LeadingSpace(lines[1]) = 0
        /\ Strip(OrigLines[1]) # <<>> =>
              \A i \in 2..Len(lines) : LeadingSpace(lines[i]) = LeadingSpace(OrigLines[i])
        /\ \A n \in 1..4 :
              (Done /\ UniformIndent(n) /\ OpensMap(1)) =>
                  /\ DOMAIN heap[1] = {KeyName(1)}
                  /\ heap[1][KeyName(1)] = VRef(2)
                  /\ \A i \in 2..Len(lines) : Declares(i) => KeyName(i) \in DOMAIN heap[2]
                  /\ \A i \in 2..Len(lines) :
                        Declares(i) => KeyName(i) \in DOMAIN DocumentOf(Dedented(n)).v
                  /\ (\E i \in 2..Len(lines) : Declares(i) /\ KeyName(i) # KeyName(1)) =>
                        result # DocumentOf(Dedented(n))
C28_Witness ==
    /\ Done /\ shape.pre = << Chars("  a|:"), Chars("  b: 1"), Chars("  b: 2") >>
    /\ UniformIndent(2) /\ OpensMap(1)
    /\ result = VMap(Dict1("a", VMap(Dict1("b", VInt(2)))))
    /\ DocumentOf(Dedented(2)) = VMap(Dict2("a", VMap(EmptyDict), "b", VInt(2)))

Recognised == {"json", "toon", "auto"}

\* C29: the try-JSON-then-TOON branch.  The try block and its except clause
\* are entered only when the hint is none of json, toon, auto.  Under auto the
\* detector has given json or toon by the time of the dispatch, so the
\* dispatch takes one of the two pinned branches.  Under an unrecognised hint
\* the dispatch always enters the JSON path inside the try block; the TOON
\* path starts only from the except clause, after the JSON path was called
\* and has raised a ValueError, and never before it.
C29_FallbackBranch ==
    /\ []((inTry \/ pc = "except") => hint \notin Recognised)
    /\ []((hint = "auto" /\ pc \notin {"call", "detect"}) => fmt \in {"json", "toon"})
    /\ [](hint \notin Recognised =>
            /\ calls \in {<<>>, <<"json">>, <<"json", "toon">>}
            /\ pc \in {"parse_toon", "toon_loop"} =>
                  (calls[1] = "json" /\ exc.type = "ValueError" /\ ~inTry)
            /\ pc \in {"parse_json", "json_loads"} => inTry)
    /\ [][(pc = "dispatch" /\ hint = "auto") =>
            (pc' = "parse_" \o fmt /\ ~inTry')]_vars
    /\ [][(pc = "dispatch" /\ hint \notin Recognised) =>
            (pc' = "parse_json" /\ inTry')]_vars
    /\ [][(hint \notin Recognised /\ pc' = "parse_toon" /\ pc # "parse_toon") =>
            (pc = "except" /\ calls = <<"json">>)]_vars
C29_Witness ==
    /\ Done /\ hint = "yaml" /\ calls = <<"json", "toon">> /\ outcome = "return"
    /\ exc.type = "ValueError"
C29_WitnessJsonOnly ==
    /\ Done /\ hint = "yaml" /\ calls = <<"json">> /\ outcome = "return"
C29_WitnessAutoDefault ==
    /\ pc = "dispatch" /\ hint = "auto" /\ fmt = "json"
    /\ ~HasJsonMarker(text) /\ ~HasToonMarker(text)

\* the reply as extract_text_with_claude sees it, and its two decodings
Reply == Strip(input)
FirstTry == JsonLoads(BraceSpan(Reply))
SecondTry == JsonLoads(EscapeQuoted(BraceSpan(Reply)))
\* the order of the steps and the four outcomes of extract_text_with_claude
HtrOutcomes ==
    /\ loads <= 2
    /\ pc = "htr_retry" => (loads = 1 /\ payload = EscapeQuoted(BraceSpan(Reply)))
    /\ pc = "htr_loads" => (loads = 0 /\ payload = BraceSpan(Reply))
    /\ Done =>
        /\ outcome = "return" /\ result.t = "tuple" /\ result.v[2].t = "map"
        /\ IF shape.kind = "api_error"
           THEN result = Pair(VStr(<<>>), VMap(ErrorDict(exc))) /\ loads = 0
           ELSE IF ~HasBraceSpan(Reply)
           THEN /\ loads = 0
                /\ result = Pair(VStr(Reply),
                                 VMap(FallbackDict(Reply, "No JSON object found in response")))
           ELSE IF FirstTry.ok
           THEN loads = 1 /\ result.v[2] = FirstTry.val
           ELSE IF FirstTry.err = "recursion"
           THEN loads = 1 /\ result = Pair(VStr(<<>>), VMap(ErrorDict(exc)))
           ELSE IF SecondTry.ok
           THEN loads = 2 /\ result.v[2] = SecondTry.val
           ELSE IF SecondTry.err = "recursion"
           THEN loads = 2 /\ result = Pair(VStr(<<>>), VMap(ErrorDict(exc)))
           ELSE /\ loads = 2
                /\ result = Pair(VStr(Reply),
                                 VMap(FallbackDict(Reply, "Could not parse JSON response")))

\* C30: extract_text_with_claude works in a fixed order (brace span, parse,
\* on a decode error escape newline / tab / carriage return inside quoted
\* spans and parse once more), never raises, and always returns a pair of a
\* text and a dict: the parsed object on success, the fallback dict "No JSON
\* object found in response" without a brace span, the fallback dict "Could
\* not parse JSON response" with the reply text when the retry fails too, and
\* ("", {"error": ...}) on any other exception.
C30_AlwaysTextAndDict ==
    /\ HtrOutcomes
    /\ Done => result.v[1].t = "str"
\* the reply of the violation: the parsed object has no string under
\* extracted_text
C30_NullText ==
    /\ Done /\ shape.kind = "lines" /\ shape.pre = << Chars("{\"extracted_text\": null}") >>
    /\ result = Pair(VNull, VMap(Dict1("extracted_text", VNull)))
\* a raw newline inside a string is repaired by the second parse
C30_Repaired ==
    /\ Done /\ shape.kind = "lines"
    /\ shape.pre = << Chars("{\"extracted_text\": \"dear"), Chars("sir\"}") >>
    /\ loads = 2
    /\ result = Pair(VStr(Chars("dear\nsir")),
                     VMap(Dict1("extracted_text", VStr(Chars("dear\nsir")))))

====
